---- MODULE Spec2Model ----
(***************************************************************************)
(* Model of the Python-sublanguage interpreter (lexer -> parser ->         *)
(* visitor).  The lexer is a state machine that reads the file character   *)
(* by character.  The parser is a set of recursive operators over the token *)
(* vector, translated function by function from parser.cpp; the visitor    *)
(* is a state machine whose control stack stands for the C++ call stack    *)
(* of Visitor::visit* and whose data is the symbol table, the two control  *)
(* stacks and the lines written to standard output.                        *)
(*                                                                         *)
(* Indices are 1-based here (index_ of the model = index_ of the C++       *)
(* parser + 1); a node's position_ is therefore the model index of the     *)
(* last token consumed when the node was built, as in the source.          *)
(***************************************************************************)
EXTENDS Integers, Sequences, FiniteSets, TLC

VARIABLES
    tokens,              \* Parser::tokens_  : the vector handed over by the lexer
    stage,               \* position of main(): "lex", "parse", "visit", "done", "failed"
    program,             \* Program::statements_ built by the parser
    frames,              \* call stack of the visitor (innermost call last)
    intVariables_,       \* SymbolTable::intVariables_
    boolVariables_,      \* SymbolTable::boolVariables_
    lists_,              \* SymbolTable::lists_
    conditionMetStack_,  \* Visitor::conditionMetStack_
    loopStack_,          \* Visitor::loopStack_
    output,              \* lines written to std::cout, in order
    err,                 \* category of the error handed to error(), "NONE" if none
    trace,               \* history: the visitor's calls, in order
    file,                \* the characters of the input file
    filePos,             \* the number of characters read from the file
    line_,               \* Lexer::line_
    column_,             \* Lexer::column_
    indentStack_,        \* Lexer::indentStack_
    parStack_,           \* Lexer::parStack_
    res,                 \* tokenizeInputFile: the vector being built
    n_t,                 \* tokenizeInputFile: blanks counted at the start of the line
    indent               \* tokenizeInputFile: no token of the line has been read yet

lexerVars == <<file, filePos, line_, column_, indentStack_, parStack_, res, n_t, indent>>

vars == <<tokens, stage, program, frames, intVariables_, boolVariables_, lists_,
          conditionMetStack_, loopStack_, output, err, trace, lexerVars>>

-----------------------------------------------------------------------------
(* Tokens (token.h).  A token is its type, the enum value of its subclass   *)
(* (value), and the payload of NumberToken (num) and of BoolToken /         *)
(* IndentationToken (bool).                                                 *)

Token(type, value, num, bool) == [type |-> type, value |-> value, num |-> num, bool |-> bool]

NumberToken(n)          == Token("NUMBER_TOKEN", "", n, FALSE)
BoolToken(b)            == Token("BOOL_TOKEN", "", 0, b)
IdToken(s)              == Token("ID_TOKEN", s, 0, FALSE)
NewLineToken            == Token("NEWLINE_TOKEN", "", 0, FALSE)
EndOfFileToken          == Token("EOF_TOKEN", "", 0, FALSE)
ArithmeticToken(v)      == Token("ARITHMETIC_TOKEN", v, 0, FALSE)
RelationalToken(v)      == Token("RELATIONAL_TOKEN", v, 0, FALSE)
BoolOpToken(v)          == Token("BOOLOP_TOKEN", v, 0, FALSE)
ReservedKeywordToken(v) == Token("RESERVEDKEYWORD_TOKEN", v, 0, FALSE)
IndentationToken(b)     == Token("INDENTATION_TOKEN", "", 0, b)
AssignmentToken         == Token("ASSIGNMENT_TOKEN", "", 0, FALSE)
PunctuationToken(v)     == Token("PUNCTUATION_TOKEN", v, 0, FALSE)

\* tokens_[i]; a read past the end of the vector yields a token of no type
TokAt(toks, i) == IF i \in 1..Len(toks) THEN toks[i] ELSE Token("OUT_OF_RANGE", "", 0, FALSE)

IsTok(toks, i, type, value) == TokAt(toks, i).type = type /\ TokAt(toks, i).value = value

IsTokIn(toks, i, type, values) == TokAt(toks, i).type = type /\ TokAt(toks, i).value \in values

-----------------------------------------------------------------------------
(* Syntax tree (syntax.h, syntax.cpp).  k is the innermost type tag of the  *)
(* class hierarchy (ExpressionType / JoinType / ... / LocationType).        *)

NullNode == [k |-> "NULL"]

OrExpr(left, right, pos)  == [k |-> "OR_EXPR", left |-> left, right |-> right, position |-> pos]
AndExpr(left, right, pos) == [k |-> "AND_JOIN", left |-> left, right |-> right, position |-> pos]
EqualExpr(left, opTok, right, pos) ==
    [k |-> "COMP_EQUALITY", op |-> IF opTok.value = "EQ" THEN "EQ_EXPR" ELSE "NEQ_EXPR",
     left |-> left, right |-> right, position |-> pos]
ComparativeRelation(left, opTok, right, pos) ==
    [k |-> "COMPARATIVE_RELATION", op |-> opTok.value \o "_REL",
     left |-> left, right |-> right, position |-> pos]
AritExpr(left, opTok, right, pos) ==
    [k |-> "ARIT_EXPR", op |-> opTok.value \o "_EXPR",
     left |-> left, right |-> right, position |-> pos]
MulDivTerm(left, opTok, right, pos) ==
    [k |-> "MULDIV_TERM", op |-> opTok.value \o "_TERM",
     left |-> left, right |-> right, position |-> pos]
NotUnary(unary, pos)       == [k |-> "NOT_UNARY", unary |-> unary, position |-> pos]
MinusUnary(unary, pos)     == [k |-> "MINUS_UNARY", unary |-> unary, position |-> pos]
ExpressionFactor(e, pos)   == [k |-> "EXPR_FACTOR", expr |-> e, position |-> pos]
NumberFactor(tok, pos)     == [k |-> "NUMBER", value |-> tok.num, position |-> pos]
BoolFactor(tok, pos)       == [k |-> "BOOL", value |-> tok.bool, position |-> pos]
IdLocation(tok, pos)       == [k |-> "ID", id |-> tok.value, position |-> pos]
ListElementLocation(tok, e, pos) ==
    [k |-> "LIST_ELEM", id |-> tok.value, index |-> e, position |-> pos]

AssignmentStatement(loc, e, pos) ==
    [type |-> "ASSIGNMENT_STMT", loc |-> loc, expr |-> e, position |-> pos]
ListDeclarationStatement(tok, pos) ==
    [type |-> "LIST_DECL_STMT", id |-> tok.value, position |-> pos]
ListAppendStatement(tok, e, pos) ==
    [type |-> "LIST_APP_STMT", id |-> tok.value, expr |-> e, position |-> pos]
BreakStatement(pos)    == [type |-> "BREAK_STMT", position |-> pos]
ContinueStatement(pos) == [type |-> "CONTINUE_STMT", position |-> pos]
PrintStatement(e, pos) == [type |-> "PRINT_STMT", expr |-> e, position |-> pos]
CompoundStatement(stype, e, blocks, pos) ==
    [type |-> stype, expr |-> e, blocks |-> blocks, position |-> pos]

SimpleBlock(stmts, pos) == [blockType |-> "SIMPLE_BLOCK", stmts |-> stmts, position |-> pos]
ElifBlock(cond, block, pos) ==
    [blockType |-> "ELIF_BLOCK", condition |-> cond, block |-> block, position |-> pos]
ElseBlock(block, pos) == [blockType |-> "ELSE_BLOCK", block |-> block, position |-> pos]

-----------------------------------------------------------------------------
(* Parser (parser.cpp).  Every parse function takes the token vector and    *)
(* the value of index_ on entry and returns the node it built and the       *)
(* value of index_ on return, or the category of the error it threw.        *)

Parsed(node, i) == [err |-> "NONE", node |-> node, index |-> i]
Thrown(category, i) == [err |-> category, node |-> NullNode, index |-> i]

\* a parse function calls another: an exception of the callee leaves the
\* caller at once, otherwise the caller goes on with what the callee returned
AndThen(result, Rest(_)) == IF result.err # "NONE" THEN result ELSE Rest(result)

RECURSIVE parseExpression(_, _)
RECURSIVE parseOrExpr(_, _, _)
RECURSIVE parseJoin(_, _)
RECURSIVE parseAndExpr(_, _, _)
RECURSIVE parseEquality(_, _)
RECURSIVE parseEqualExpr(_, _, _)
RECURSIVE parseRelation(_, _)
RECURSIVE parseComparativeRelation(_, _, _)
RECURSIVE parseNumExpr(_, _)
RECURSIVE parseAritExpr(_, _, _)
RECURSIVE parseTerm(_, _)
RECURSIVE parseMulDivTerm(_, _, _)
RECURSIVE parseUnary(_, _)
RECURSIVE parseNotUnary(_, _)
RECURSIVE parseMinusUnary(_, _)
RECURSIVE parseFactor(_, _)
RECURSIVE parseExpressionFactor(_, _)
RECURSIVE parseLocation(_, _)
RECURSIVE parseListElementLocation(_, _, _)

parseExpression(toks, i) ==
    AndThen(parseJoin(toks, i), LAMBDA join :
    IF IsTok(toks, join.index, "BOOLOP_TOKEN", "OR")
    THEN parseOrExpr(toks, join.node, join.index)
    ELSE join)

parseOrExpr(toks, left, i) ==
    IF ~IsTok(toks, i, "BOOLOP_TOKEN", "OR") THEN Thrown("SYNTAX_ERROR", i)
    ELSE AndThen(parseExpression(toks, i + 1), LAMBDA right :
         Parsed(OrExpr(left, right.node, right.index - 1), right.index))

parseJoin(toks, i) ==
    AndThen(parseEquality(toks, i), LAMBDA equality :
    IF IsTok(toks, equality.index, "BOOLOP_TOKEN", "AND")
    THEN parseAndExpr(toks, equality.node, equality.index)
    ELSE equality)

parseAndExpr(toks, left, i) ==
    \* index_++ comes first; the token then under index_ must not be 'and'
    IF IsTok(toks, i + 1, "BOOLOP_TOKEN", "AND") THEN Thrown("SYNTAX_ERROR", i + 1)
    ELSE AndThen(parseEquality(toks, i + 1), LAMBDA right :
         Parsed(AndExpr(left, right.node, right.index - 1), right.index))

parseEquality(toks, i) ==
    AndThen(parseRelation(toks, i), LAMBDA relation :
    IF IsTokIn(toks, relation.index, "RELATIONAL_TOKEN", {"EQ", "NEQ"})
    THEN parseEqualExpr(toks, relation.node, relation.index)
    ELSE relation)

parseEqualExpr(toks, left, i) ==
    IF ~IsTokIn(toks, i, "RELATIONAL_TOKEN", {"EQ", "NEQ"}) THEN Thrown("SYNTAX_ERROR", i)
    ELSE AndThen(parseRelation(toks, i + 1), LAMBDA right :
         Parsed(EqualExpr(left, TokAt(toks, i), right.node, right.index - 1), right.index))

parseRelation(toks, i) ==
    AndThen(parseNumExpr(toks, i), LAMBDA numExpr :
    IF IsTokIn(toks, numExpr.index, "RELATIONAL_TOKEN", {"LE", "GT", "GE", "LT"})
    THEN parseComparativeRelation(toks, numExpr.node, numExpr.index)
    ELSE numExpr)

parseComparativeRelation(toks, left, i) ==
    IF ~IsTokIn(toks, i, "RELATIONAL_TOKEN", {"LT", "LE", "GT", "GE"})
    THEN Thrown("SYNTAX_ERROR", i)
    ELSE AndThen(parseNumExpr(toks, i + 1), LAMBDA right :
         Parsed(ComparativeRelation(left, TokAt(toks, i), right.node, right.index - 1),
                     right.index))

parseNumExpr(toks, i) ==
    AndThen(parseTerm(toks, i), LAMBDA term :
    IF IsTokIn(toks, term.index, "ARITHMETIC_TOKEN", {"ADD", "SUB"})
    THEN parseAritExpr(toks, term.node, term.index)
    ELSE term)

parseAritExpr(toks, left, i) ==
    IF ~IsTokIn(toks, i, "ARITHMETIC_TOKEN", {"ADD", "SUB"}) THEN Thrown("SYNTAX_ERROR", i)
    ELSE AndThen(parseTerm(toks, i + 1), LAMBDA right :
         Parsed(AritExpr(left, TokAt(toks, i), right.node, right.index - 1), right.index))

parseTerm(toks, i) ==
    AndThen(parseUnary(toks, i), LAMBDA unary :
    IF IsTokIn(toks, unary.index, "ARITHMETIC_TOKEN", {"MUL", "DIV"})
    THEN parseMulDivTerm(toks, unary.node, unary.index)
    ELSE unary)

parseMulDivTerm(toks, left, i) ==
    IF ~IsTokIn(toks, i, "ARITHMETIC_TOKEN", {"MUL", "DIV"}) THEN Thrown("SYNTAX_ERROR", i)
    ELSE AndThen(parseTerm(toks, i + 1), LAMBDA right :
         Parsed(MulDivTerm(left, TokAt(toks, i), right.node, right.index - 1), right.index))

parseUnary(toks, i) ==
    IF IsTok(toks, i, "BOOLOP_TOKEN", "NOT") THEN parseNotUnary(toks, i)
    ELSE IF IsTok(toks, i, "ARITHMETIC_TOKEN", "SUB") THEN parseMinusUnary(toks, i)
    ELSE parseFactor(toks, i)

parseNotUnary(toks, i) ==
    IF ~IsTok(toks, i, "BOOLOP_TOKEN", "NOT") THEN Thrown("SYNTAX_ERROR", i)
    ELSE AndThen(parseUnary(toks, i + 1), LAMBDA expr :
         Parsed(NotUnary(expr.node, expr.index - 1), expr.index))

parseMinusUnary(toks, i) ==
    IF ~IsTok(toks, i, "ARITHMETIC_TOKEN", "SUB") THEN Thrown("SYNTAX_ERROR", i)
    ELSE AndThen(parseUnary(toks, i + 1), LAMBDA expr :
         Parsed(MinusUnary(expr.node, expr.index - 1), expr.index))

parseFactor(toks, i) ==
    IF IsTok(toks, i, "PUNCTUATION_TOKEN", "LPAR") THEN parseExpressionFactor(toks, i)
    ELSE IF TokAt(toks, i).type = "NUMBER_TOKEN"
         THEN Parsed(NumberFactor(TokAt(toks, i), i), i + 1)      \* parseNumberFactor
    ELSE IF TokAt(toks, i).type = "BOOL_TOKEN"
         THEN Parsed(BoolFactor(TokAt(toks, i), i), i + 1)        \* parseBoolFactor
    ELSE IF TokAt(toks, i).type = "ID_TOKEN" THEN parseLocation(toks, i)
    ELSE Thrown("SYNTAX_ERROR", i)

parseExpressionFactor(toks, i) ==
    IF ~IsTok(toks, i, "PUNCTUATION_TOKEN", "LPAR") THEN Thrown("SYNTAX_ERROR", i)
    ELSE AndThen(parseExpression(toks, i + 1), LAMBDA expr :
         IF ~IsTok(toks, expr.index, "PUNCTUATION_TOKEN", "RPAR")
              THEN Thrown("SYNTAX_ERROR", expr.index)
              ELSE Parsed(ExpressionFactor(expr.node, expr.index), expr.index + 1))

parseLocation(toks, i) ==
    IF TokAt(toks, i).type # "ID_TOKEN" THEN Thrown("SYNTAX_ERROR", i)
    ELSE IF IsTok(toks, i + 1, "PUNCTUATION_TOKEN", "LBRACK")
         THEN parseListElementLocation(toks, TokAt(toks, i), i + 1)
         ELSE Parsed(IdLocation(TokAt(toks, i), i), i + 1)

parseListElementLocation(toks, idToken, i) ==
    IF ~IsTok(toks, i, "PUNCTUATION_TOKEN", "LBRACK") THEN Thrown("SYNTAX_ERROR", i)
    ELSE AndThen(parseExpression(toks, i + 1), LAMBDA expr :
         IF ~IsTok(toks, expr.index, "PUNCTUATION_TOKEN", "RBRACK")
              THEN Thrown("SYNTAX_ERROR", expr.index)
              ELSE Parsed(ListElementLocation(idToken, expr.node, expr.index), expr.index + 1))

-----------------------------------------------------------------------------
(* Statements (parser.cpp).  A statement parser returns the statement, or   *)
(* NullStmt where the source returns nullptr.                               *)

NullStmt == [type |-> "NULL"]

\* the check that ends every simple statement: a newline or the end of file
EndsStatement(toks, i) == TokAt(toks, i).type \in {"NEWLINE_TOKEN", "EOF_TOKEN"}

parseAssignmentStatement(toks, i) ==
    AndThen(parseLocation(toks, i), LAMBDA location :
    IF TokAt(toks, location.index).type # "ASSIGNMENT_TOKEN"
         THEN Thrown("SYNTAX_ERROR", location.index)
    ELSE AndThen(parseExpression(toks, location.index + 1), LAMBDA expr :
         IF ~EndsStatement(toks, expr.index) THEN Thrown("SYNTAX_ERROR", expr.index)
         ELSE Parsed(AssignmentStatement(location.node, expr.node, expr.index), expr.index + 1)))

parseListDeclarationStatement(toks, i) ==
    IF TokAt(toks, i).type # "ID_TOKEN" THEN Thrown("SYNTAX_ERROR", i)
    ELSE IF TokAt(toks, i + 1).type # "ASSIGNMENT_TOKEN" THEN Thrown("SYNTAX_ERROR", i + 1)
    ELSE IF ~IsTok(toks, i + 2, "RESERVEDKEYWORD_TOKEN", "LIST") THEN Thrown("SYNTAX_ERROR", i + 2)
    ELSE IF ~IsTok(toks, i + 3, "PUNCTUATION_TOKEN", "LPAR") THEN Thrown("SYNTAX_ERROR", i + 3)
    ELSE IF ~IsTok(toks, i + 4, "PUNCTUATION_TOKEN", "RPAR") THEN Thrown("SYNTAX_ERROR", i + 4)
    ELSE IF ~EndsStatement(toks, i + 5) THEN Thrown("SYNTAX_ERROR", i + 5)
    ELSE Parsed(ListDeclarationStatement(TokAt(toks, i), i + 5), i + 6)

parseListAppendStatement(toks, i) ==
    IF TokAt(toks, i).type # "ID_TOKEN" THEN Thrown("SYNTAX_ERROR", i)
    ELSE IF ~IsTok(toks, i + 1, "PUNCTUATION_TOKEN", "PERIOD") THEN Thrown("SYNTAX_ERROR", i + 1)
    ELSE IF ~IsTok(toks, i + 2, "RESERVEDKEYWORD_TOKEN", "APPEND") THEN Thrown("SYNTAX_ERROR", i + 2)
    ELSE IF ~IsTok(toks, i + 3, "PUNCTUATION_TOKEN", "LPAR") THEN Thrown("SYNTAX_ERROR", i + 3)
    ELSE AndThen(parseExpression(toks, i + 4), LAMBDA expr :
         IF ~IsTok(toks, expr.index, "PUNCTUATION_TOKEN", "RPAR")
              THEN Thrown("SYNTAX_ERROR", expr.index)
         ELSE IF ~EndsStatement(toks, expr.index + 1) THEN Thrown("SYNTAX_ERROR", expr.index + 1)
         ELSE Parsed(ListAppendStatement(TokAt(toks, i), expr.node, expr.index + 1),
                     expr.index + 2))

parseBreakStatement(toks, i) ==
    IF ~IsTok(toks, i, "RESERVEDKEYWORD_TOKEN", "BREAK") THEN Thrown("SYNTAX_ERROR", i)
    ELSE IF ~EndsStatement(toks, i + 1) THEN Thrown("SYNTAX_ERROR", i + 1)
    ELSE Parsed(BreakStatement(i + 1), i + 2)

parseContinueStatement(toks, i) ==
    IF ~IsTok(toks, i, "RESERVEDKEYWORD_TOKEN", "CONTINUE") THEN Thrown("SYNTAX_ERROR", i)
    ELSE IF ~EndsStatement(toks, i + 1) THEN Thrown("SYNTAX_ERROR", i + 1)
    ELSE Parsed(ContinueStatement(i + 1), i + 2)

parsePrintStatement(toks, i) ==
    IF ~IsTok(toks, i, "RESERVEDKEYWORD_TOKEN", "PRINT") THEN Thrown("SYNTAX_ERROR", i)
    ELSE IF ~IsTok(toks, i + 1, "PUNCTUATION_TOKEN", "LPAR") THEN Thrown("SYNTAX_ERROR", i + 1)
    ELSE AndThen(parseExpression(toks, i + 2), LAMBDA expr :
         IF ~IsTok(toks, expr.index, "PUNCTUATION_TOKEN", "RPAR")
              THEN Thrown("SYNTAX_ERROR", expr.index)
         ELSE IF ~EndsStatement(toks, expr.index + 1) THEN Thrown("SYNTAX_ERROR", expr.index + 1)
         ELSE Parsed(PrintStatement(expr.node, expr.index + 1), expr.index + 2))

RECURSIVE parseStatement(_, _)
RECURSIVE parseCompoundStatement(_, _)
RECURSIVE parseBlock(_, _)
RECURSIVE parseBlockStatements(_, _, _)
RECURSIVE parseElifBlock(_, _)
RECURSIVE parseElifBlocks(_, _, _)
RECURSIVE parseElseBlock(_, _)

parseStatement(toks, i) ==
    IF IsTok(toks, i, "RESERVEDKEYWORD_TOKEN", "PRINT") THEN parsePrintStatement(toks, i)
    ELSE IF IsTok(toks, i, "RESERVEDKEYWORD_TOKEN", "BREAK") THEN parseBreakStatement(toks, i)
    ELSE IF IsTok(toks, i, "RESERVEDKEYWORD_TOKEN", "CONTINUE")
         THEN parseContinueStatement(toks, i)
    ELSE IF TokAt(toks, i).type = "ID_TOKEN"
         THEN IF /\ IsTok(toks, i + 1, "PUNCTUATION_TOKEN", "PERIOD")
                 /\ IsTok(toks, i + 2, "RESERVEDKEYWORD_TOKEN", "APPEND")
              THEN parseListAppendStatement(toks, i)
              ELSE IF /\ TokAt(toks, i + 1).type = "ASSIGNMENT_TOKEN"
                      /\ IsTok(toks, i + 2, "RESERVEDKEYWORD_TOKEN", "LIST")
                   THEN parseListDeclarationStatement(toks, i)
                   ELSE parseAssignmentStatement(toks, i)
    ELSE IF IsTokIn(toks, i, "RESERVEDKEYWORD_TOKEN", {"IF", "WHILE"})
         THEN parseCompoundStatement(toks, i)
    ELSE Parsed(NullStmt, i)

\* the statement loop of parseBlock; a null statement at the end-of-file
\* token leaves index_ unchanged, and the loop then never ends ("DIVERGES")
parseBlockStatements(toks, i, statements) ==
    IF i <= Len(toks) /\ ~(TokAt(toks, i).type = "INDENTATION_TOKEN" /\ ~TokAt(toks, i).bool)
    THEN AndThen(parseStatement(toks, i), LAMBDA stmt :
         IF stmt.node.type # "NULL"
         THEN parseBlockStatements(toks, stmt.index, Append(statements, stmt.node))
         ELSE IF TokAt(toks, i).type # "EOF_TOKEN"
              THEN parseBlockStatements(toks, i + 1, statements)
         ELSE Thrown("DIVERGES", i))
    ELSE Parsed(statements, i)

parseBlock(toks, i) ==
    IF TokAt(toks, i).type # "NEWLINE_TOKEN" THEN Thrown("SYNTAX_ERROR", i)
    ELSE IF ~(TokAt(toks, i + 1).type = "INDENTATION_TOKEN" /\ TokAt(toks, i + 1).bool)
         THEN Thrown("INDENTATION_ERROR", i + 1)
    ELSE AndThen(parseBlockStatements(toks, i + 2, <<>>), LAMBDA body :
         IF ~(TokAt(toks, body.index).type = "INDENTATION_TOKEN"
                   /\ ~TokAt(toks, body.index).bool)
              THEN Thrown("SYNTAX_ERROR", body.index)
         ELSE Parsed(SimpleBlock(body.node, body.index), body.index + 1))

parseElifBlock(toks, i) ==
    IF ~IsTok(toks, i, "RESERVEDKEYWORD_TOKEN", "ELIF") THEN Thrown("SYNTAX_ERROR", i)
    ELSE AndThen(parseExpression(toks, i + 1), LAMBDA expr :
         IF ~IsTok(toks, expr.index, "PUNCTUATION_TOKEN", "COL")
              THEN Thrown("SYNTAX_ERROR", expr.index)
         ELSE AndThen(parseBlock(toks, expr.index + 1), LAMBDA block :
              Parsed(ElifBlock(expr.node, block.node, block.index - 1), block.index)))

parseElseBlock(toks, i) ==
    IF ~IsTok(toks, i, "RESERVEDKEYWORD_TOKEN", "ELSE") THEN Thrown("SYNTAX_ERROR", i)
    ELSE IF ~IsTok(toks, i + 1, "PUNCTUATION_TOKEN", "COL") THEN Thrown("SYNTAX_ERROR", i + 1)
    ELSE AndThen(parseBlock(toks, i + 2), LAMBDA block :
         Parsed(ElseBlock(block.node, block.index - 1), block.index))

\* the 'elif' loop of parseCompoundStatement
parseElifBlocks(toks, i, blocks) ==
    IF IsTok(toks, i, "RESERVEDKEYWORD_TOKEN", "ELIF")
    THEN AndThen(parseElifBlock(toks, i), LAMBDA elifBlock :
         parseElifBlocks(toks, elifBlock.index, Append(blocks, elifBlock.node)))
    ELSE Parsed(blocks, i)

parseCompoundStatement(toks, i) ==
    IF ~IsTokIn(toks, i, "RESERVEDKEYWORD_TOKEN", {"IF", "WHILE"}) THEN Thrown("SYNTAX_ERROR", i)
    ELSE LET stype == IF TokAt(toks, i).value = "IF" THEN "IF_STMT" ELSE "WHILE_STMT" IN
         AndThen(parseExpression(toks, i + 1), LAMBDA expr :
         IF ~IsTok(toks, expr.index, "PUNCTUATION_TOKEN", "COL")
         THEN Thrown("SYNTAX_ERROR", expr.index)
         ELSE AndThen(parseBlock(toks, expr.index + 1), LAMBDA block :
              IF stype = "WHILE_STMT"
              THEN Parsed(CompoundStatement(stype, expr.node, <<block.node>>, block.index - 1),
                          block.index)
              ELSE AndThen(parseElifBlocks(toks, block.index, <<block.node>>), LAMBDA elifs :
                   IF IsTok(toks, elifs.index, "RESERVEDKEYWORD_TOKEN", "ELSE")
                   THEN AndThen(parseElseBlock(toks, elifs.index), LAMBDA elseBlock :
                        Parsed(CompoundStatement(stype, expr.node,
                                                 Append(elifs.node, elseBlock.node),
                                                 elseBlock.index - 1), elseBlock.index))
                   ELSE Parsed(CompoundStatement(stype, expr.node, elifs.node,
                                                 elifs.index - 1), elifs.index))))

\* the statement loop of parseProgram
RECURSIVE parseProgramStatements(_, _, _)
parseProgramStatements(toks, i, statements) ==
    IF i <= Len(toks)
    THEN AndThen(parseStatement(toks, i), LAMBDA stmt :
         IF stmt.node.type # "NULL"
         THEN parseProgramStatements(toks, stmt.index, Append(statements, stmt.node))
         ELSE IF TokAt(toks, i).type = "EOF_TOKEN" THEN Parsed(statements, i)
         ELSE parseProgramStatements(toks, i + 1, statements))
    ELSE Parsed(statements, i)

parseProgram(toks) == parseProgramStatements(toks, 1, <<>>)

-----------------------------------------------------------------------------
(* Symbol table (semantics.cpp) and its wrappers in the visitor.            *)

\* EvaluatedElement: the field that type_ does not select is never read
EvaluatedElement(type, i, b) == [type |-> type, intValue |-> i, boolValue |-> b]
IntElement(i)  == EvaluatedElement("TYPE_INT", i, FALSE)
BoolElement(b) == EvaluatedElement("TYPE_BOOL", 0, b)

isVariableDefined(id) == id \in DOMAIN intVariables_ \/ id \in DOMAIN boolVariables_
isListDefined(id)     == id \in DOMAIN lists_
isAlreadyDefined(id)  == isVariableDefined(id) \/ isListDefined(id)

getVariableValue(id) ==
    IF id \in DOMAIN intVariables_ THEN IntElement(intVariables_[id])
    ELSE BoolElement(boolVariables_[id])

Without(f, id) == [n \in DOMAIN f \ {id} |-> f[n]]
With(f, id, v) == [n \in DOMAIN f \cup {id} |-> IF n = id THEN v ELSE f[n]]

\* the pair of scalar maps after SymbolTable::addVariable(id, element);
\* the caller has checked that id is in neither map
addVariable(ints, bools, id, element) ==
    IF element.type = "TYPE_INT"
    THEN [ints |-> With(ints, id, element.intValue), bools |-> bools]
    ELSE [ints |-> ints, bools |-> With(bools, id, element.boolValue)]

\* a variant of updateVariable that leaves the binding of the other type
updateVariableStale(ints, bools, id, element) ==
    IF element.type = "TYPE_INT"
    THEN [ints |-> With(ints, id, element.intValue), bools |-> bools]
    ELSE [ints |-> ints, bools |-> With(bools, id, element.boolValue)]

\* the pair of scalar maps after SymbolTable::updateVariable(id, element);
\* the caller has checked that id is in one of the maps
updateVariable(ints, bools, id, element) ==
    IF element.type = "TYPE_INT"
    THEN [ints |-> With(ints, id, element.intValue), bools |-> Without(bools, id)]
    ELSE [ints |-> Without(ints, id), bools |-> With(bools, id, element.boolValue)]

\* a variant of appendToList that puts the element first
appendToListFront(lists, id, element) == [lists EXCEPT ![id] = <<element>> \o @]

\* lists_ after SymbolTable::appendToList(id, element) on a defined list
appendToList(lists, id, element) == [lists EXCEPT ![id] = Append(@, element)]

\* a variant of updateListElement that adds the element at the end
updateListElementGrows(lists, id, index, element) ==
    [lists EXCEPT ![id] = Append(@, element)]

\* lists_ after SymbolTable::updateListElement(id, index, element) with the
\* index within bounds (the vector is 0-based, the sequence 1-based)
updateListElement(lists, id, index, element) ==
    [lists EXCEPT ![id][index + 1] = element]

\* a variant of clear that leaves the list in the map
clearKeeps(lists, id) == lists

\* lists_ after SymbolTable::clear(id)
clear(lists, id) == Without(lists, id)

-----------------------------------------------------------------------------
(* Expression evaluation (visitor.cpp).  getDataType and eval return the    *)
(* type / the value, or the category of the error they threw.               *)

Type(t)   == [err |-> "NONE", type |-> t]
RaiseType(category) == [err |-> category, type |-> "TYPE_UNDEFINED"]
Value(el) == [err |-> "NONE", type |-> el.type, intValue |-> el.intValue,
              boolValue |-> el.boolValue]
Raise(category) == [err |-> category, type |-> "TYPE_UNDEFINED", intValue |-> 0,
                    boolValue |-> FALSE]

\* C++ integer division truncates toward zero
TruncDiv(a, b) ==
    LET q == (IF a < 0 THEN -a ELSE a) \div (IF b < 0 THEN -b ELSE b)
    IN  IF (a < 0) = (b < 0) THEN q ELSE -q

\* the operand checks made before an operator is applied
EqualTypesRejected(leftType, rightType) ==
    leftType = "TYPE_UNDEFINED" \/ rightType = "TYPE_UNDEFINED" \/ leftType # rightType

\* a variant of the integer check that lets every pair of types through
IntTypesAccepted(leftType, rightType) == FALSE

IntTypesRejected(leftType, rightType) == leftType # "TYPE_INT" \/ rightType # "TYPE_INT"

\* a variant of ApplyMulDiv without the test of the divisor
ApplyMulDivUnchecked(op, l, r) ==
    IF op = "MUL_TERM" THEN Value(IntElement(l * r))
    ELSE IF r = 0 THEN Value(IntElement(0))
    ELSE Value(IntElement(TruncDiv(l, r)))

\* MulDivTerm applied to two evaluated integers
ApplyMulDiv(op, l, r) ==
    IF op = "MUL_TERM" THEN Value(IntElement(l * r))
    ELSE IF r = 0 THEN Raise("ZERO_DIVISION")
    ELSE Value(IntElement(TruncDiv(l, r)))

ApplyArit(op, l, r) ==
    IF op = "ADD_EXPR" THEN Value(IntElement(l + r)) ELSE Value(IntElement(l - r))

ApplyComparative(op, l, r) ==
    Value(BoolElement(CASE op = "LT_REL" -> l < r
                        [] op = "LE_REL" -> l <= r
                        [] op = "GT_REL" -> l > r
                        [] OTHER         -> l >= r))

\* EqualExpr applied to two evaluated operands; each getter throws
\* InternalError when the element is not of its type
ApplyEqual(op, l, r) ==
    IF l.type # r.type THEN Raise("INTERNAL_ERROR")
    ELSE LET same == IF l.type = "TYPE_BOOL" THEN l.boolValue = r.boolValue
                     ELSE l.intValue = r.intValue
         IN  Value(BoolElement(IF op = "EQ_EXPR" THEN same ELSE ~same))

RECURSIVE getDataType(_)
RECURSIVE eval(_)

getDataType(expr) ==
    CASE expr.k \in {"OR_EXPR", "AND_JOIN"} ->
            LET leftType == getDataType(expr.left) IN
            IF leftType.err # "NONE" THEN leftType
            ELSE LET rightType == getDataType(expr.right) IN
                 IF rightType.err # "NONE" THEN rightType
                 ELSE IF leftType.type = "TYPE_BOOL" /\ rightType.type = "TYPE_BOOL"
                      THEN Type("TYPE_BOOL") ELSE Type("TYPE_UNDEFINED")
      [] expr.k = "COMP_EQUALITY" ->
            LET leftType == getDataType(expr.left) IN
            IF leftType.err # "NONE" THEN leftType
            ELSE LET rightType == getDataType(expr.right) IN
                 IF rightType.err # "NONE" THEN rightType
                 ELSE IF EqualTypesRejected(leftType.type, rightType.type)
                      THEN Type("TYPE_UNDEFINED") ELSE Type("TYPE_BOOL")
      [] expr.k \in {"COMPARATIVE_RELATION", "ARIT_EXPR", "MULDIV_TERM"} ->
            LET leftType == getDataType(expr.left) IN
            IF leftType.err # "NONE" THEN leftType
            ELSE LET rightType == getDataType(expr.right) IN
                 IF rightType.err # "NONE" THEN rightType
                 ELSE IF leftType.type = "TYPE_INT" /\ rightType.type = "TYPE_INT"
                      THEN Type(IF expr.k = "COMPARATIVE_RELATION"
                                THEN "TYPE_BOOL" ELSE "TYPE_INT")
                      ELSE Type("TYPE_UNDEFINED")
      [] expr.k = "NOT_UNARY" ->
            LET unaryType == getDataType(expr.unary) IN
            IF unaryType.err # "NONE" THEN unaryType
            ELSE IF unaryType.type = "TYPE_BOOL" THEN Type("TYPE_BOOL")
            ELSE Type("TYPE_UNDEFINED")
      [] expr.k = "MINUS_UNARY" ->
            LET unaryType == getDataType(expr.unary) IN
            IF unaryType.err # "NONE" THEN unaryType
            ELSE IF unaryType.type = "TYPE_INT" THEN Type("TYPE_INT")
            ELSE Type("TYPE_UNDEFINED")
      [] expr.k = "EXPR_FACTOR" -> getDataType(expr.expr)
      [] expr.k = "NUMBER" -> Type("TYPE_INT")
      [] expr.k = "BOOL" -> Type("TYPE_BOOL")
      [] expr.k = "ID" ->
            IF ~isVariableDefined(expr.id) THEN RaiseType("SEMANTIC_ERROR")
            ELSE Type(getVariableValue(expr.id).type)
      [] expr.k = "LIST_ELEM" ->
            IF ~isListDefined(expr.id) THEN RaiseType("SEMANTIC_ERROR")
            ELSE LET index == eval(expr.index) IN
                 IF index.err # "NONE" THEN RaiseType(index.err)
                 \* getIntValue() on a Bool element, then SymbolTable::getListElement
                 ELSE IF index.type # "TYPE_INT"
                      THEN RaiseType("INTERNAL_ERROR")
                 ELSE IF index.intValue < 0 \/ index.intValue >= Len(lists_[expr.id])
                      THEN RaiseType("INTERNAL_ERROR")
                 ELSE Type(lists_[expr.id][index.intValue + 1].type)
      [] OTHER -> Type("TYPE_UNDEFINED")

eval(expr) ==
    CASE expr.k = "OR_EXPR" ->
            LET leftType == getDataType(expr.left) IN
            IF leftType.err # "NONE" THEN Raise(leftType.err)
            ELSE IF leftType.type # "TYPE_BOOL" THEN Raise("TYPE_ERROR")
            ELSE LET rightType == getDataType(expr.right) IN
                 IF rightType.err # "NONE" THEN Raise(rightType.err)
                 ELSE IF rightType.type # "TYPE_BOOL" THEN Raise("TYPE_ERROR")
                 ELSE LET leftValue == eval(expr.left) IN
                      IF leftValue.err # "NONE" THEN leftValue
                      ELSE IF leftValue.type # "TYPE_BOOL" THEN Raise("INTERNAL_ERROR")
                      ELSE IF leftValue.boolValue THEN Value(BoolElement(TRUE))
                      ELSE LET rightValue == eval(expr.right) IN
                           IF rightValue.err # "NONE" THEN rightValue
                           ELSE IF rightValue.type # "TYPE_BOOL" THEN Raise("INTERNAL_ERROR")
                           ELSE Value(BoolElement(rightValue.boolValue))
      [] expr.k = "AND_JOIN" ->
            LET leftType == getDataType(expr.left) IN
            IF leftType.err # "NONE" THEN Raise(leftType.err)
            ELSE IF leftType.type # "TYPE_BOOL" THEN Raise("TYPE_ERROR")
            ELSE LET rightType == getDataType(expr.right) IN
                 IF rightType.err # "NONE" THEN Raise(rightType.err)
                 ELSE IF rightType.type # "TYPE_BOOL" THEN Raise("TYPE_ERROR")
                 ELSE LET leftValue == eval(expr.left) IN
                      IF leftValue.err # "NONE" THEN leftValue
                      ELSE IF leftValue.type # "TYPE_BOOL" THEN Raise("INTERNAL_ERROR")
                      ELSE IF ~leftValue.boolValue THEN Value(BoolElement(FALSE))
                      ELSE LET rightValue == eval(expr.right) IN
                           IF rightValue.err # "NONE" THEN rightValue
                           ELSE IF rightValue.type # "TYPE_BOOL" THEN Raise("INTERNAL_ERROR")
                           ELSE Value(BoolElement(rightValue.boolValue))
      [] expr.k \in {"COMP_EQUALITY", "COMPARATIVE_RELATION", "ARIT_EXPR", "MULDIV_TERM"} ->
            LET leftType == getDataType(expr.left) IN
            IF leftType.err # "NONE" THEN Raise(leftType.err)
            ELSE LET rightType == getDataType(expr.right) IN
                 IF rightType.err # "NONE" THEN Raise(rightType.err)
                 ELSE IF IF expr.k = "COMP_EQUALITY"
                         THEN EqualTypesRejected(leftType.type, rightType.type)
                         ELSE IntTypesRejected(leftType.type, rightType.type)
                      THEN Raise("TYPE_ERROR")
                 ELSE LET leftValue == eval(expr.left) IN
                      IF leftValue.err # "NONE" THEN leftValue
                      ELSE LET rightValue == eval(expr.right) IN
                           IF rightValue.err # "NONE" THEN rightValue
                           ELSE IF expr.k = "COMP_EQUALITY"
                                THEN ApplyEqual(expr.op, leftValue, rightValue)
                           ELSE IF leftValue.type # "TYPE_INT" \/ rightValue.type # "TYPE_INT"
                                THEN Raise("INTERNAL_ERROR")
                           ELSE IF expr.k = "COMPARATIVE_RELATION"
                                THEN ApplyComparative(expr.op, leftValue.intValue,
                                                      rightValue.intValue)
                           ELSE IF expr.k = "ARIT_EXPR"
                                THEN ApplyArit(expr.op, leftValue.intValue, rightValue.intValue)
                           ELSE ApplyMulDiv(expr.op, leftValue.intValue, rightValue.intValue)
      [] expr.k = "NOT_UNARY" ->
            LET unaryType == getDataType(expr.unary) IN
            IF unaryType.err # "NONE" THEN Raise(unaryType.err)
            ELSE IF unaryType.type # "TYPE_BOOL" THEN Raise("TYPE_ERROR")
            ELSE LET unaryValue == eval(expr.unary) IN
                 IF unaryValue.err # "NONE" THEN unaryValue
                 ELSE IF unaryValue.type # "TYPE_BOOL" THEN Raise("INTERNAL_ERROR")
                 ELSE Value(BoolElement(~unaryValue.boolValue))
      [] expr.k = "MINUS_UNARY" ->
            LET unaryType == getDataType(expr.unary) IN
            IF unaryType.err # "NONE" THEN Raise(unaryType.err)
            ELSE IF unaryType.type # "TYPE_INT" THEN Raise("TYPE_ERROR")
            ELSE LET unaryValue == eval(expr.unary) IN
                 IF unaryValue.err # "NONE" THEN unaryValue
                 ELSE IF unaryValue.type # "TYPE_INT" THEN Raise("INTERNAL_ERROR")
                 ELSE Value(IntElement(-unaryValue.intValue))
      [] expr.k = "EXPR_FACTOR" -> eval(expr.expr)
      [] expr.k = "NUMBER" -> Value(IntElement(expr.value))
      [] expr.k = "BOOL" -> Value(BoolElement(expr.value))
      [] expr.k = "ID" ->
            IF ~isVariableDefined(expr.id) THEN Raise("SEMANTIC_ERROR")
            ELSE Value(getVariableValue(expr.id))
      [] expr.k = "LIST_ELEM" ->
            IF ~isListDefined(expr.id) THEN Raise("SEMANTIC_ERROR")
            ELSE LET indexValue == eval(expr.index) IN
                 IF indexValue.err # "NONE" THEN indexValue
                 ELSE IF indexValue.type # "TYPE_INT" THEN Raise("TYPE_ERROR")
                 ELSE IF indexValue.intValue < 0
                         \/ indexValue.intValue >= Len(lists_[expr.id])
                      THEN Raise("SEMANTIC_ERROR")
                 ELSE Value(lists_[expr.id][indexValue.intValue + 1])
      [] OTHER -> Raise("INTERNAL_ERROR")

-----------------------------------------------------------------------------
(* The visitor (visitor.cpp) as a state machine.  A frame is one active     *)
(* call: visitProgram and visitSimpleBlock walk stmts with pc;              *)
(* visitIfStatement walks the blocks of stmt with bi, first in the loop of  *)
(* the taken branch (phase "taken") and then in the loop over the elif and  *)
(* else blocks (phase "rest"); visitWhileStatement is either about to       *)
(* evaluate its condition (phase "cond") or walks its body with pc (phase   *)
(* "body").  caller is the function a visitSimpleBlock frame returns to.    *)

Frame(kind, stmts, pc, stmt, phase, bi, caller) ==
    [kind |-> kind, stmts |-> stmts, pc |-> pc, stmt |-> stmt, phase |-> phase,
     bi |-> bi, caller |-> caller]

ProgramFrame(stmts)       == Frame("visitProgram", stmts, 1, NullStmt, "", 0, "main")
BlockFrame(block, caller) == Frame("visitSimpleBlock", block.stmts, 1, NullStmt, "", 0, caller)
IfFrame(stmt, phase)      == Frame("visitIfStatement", <<>>, 0, stmt, phase, 1, "visitStatement")
WhileFrame(stmt)          == Frame("visitWhileStatement", stmt.blocks[1].stmts, 1, stmt,
                                   "cond", 0, "visitStatement")

Top == frames[Len(frames)]
Pop(stack) == SubSeq(stack, 1, Len(stack) - 1)
SetTop(stack, v) == [stack EXCEPT ![Len(stack)] = v]

\* the frame is inside one of the loops that call visitStatement
InStatementLoop ==
    /\ stage = "visit"
    /\ frames # <<>>
    /\ \/ Top.kind \in {"visitProgram", "visitSimpleBlock"}
       \/ Top.kind = "visitWhileStatement" /\ Top.phase = "body"
    /\ Top.pc <= Len(Top.stmts)

\* the statement the loop is at
Current == Top.stmts[Top.pc]

\* visitStatement(stmt) is called on a statement of the given type; the
\* body loop of visitWhileStatement does not call it for break and continue
Visiting(type) ==
    /\ InStatementLoop
    /\ Current.type = type
    /\ ~(Top.kind = "visitWhileStatement" /\ type \in {"BREAK_STMT", "CONTINUE_STMT"})

\* the loop goes on to its next statement
Advanced == SetTop(frames, [Top EXCEPT !.pc = @ + 1])

Event(ev, pos) == [ev |-> ev, position |-> pos, loops |-> loopStack_]

\* a variant of Fail in which the lines already written are lost
FailRetracts(category) ==
    /\ stage' = "failed"
    /\ err' = category
    /\ output' = <<>>
    /\ UNCHANGED <<tokens, program, frames, intVariables_, boolVariables_, lists_,
                   conditionMetStack_, loopStack_, lexerVars>>

\* a variant of Fail in which the error is noted and the visitor goes on
FailKeepsRunning(category) ==
    /\ err' = category
    /\ frames' = Advanced
    /\ UNCHANGED <<tokens, program, stage, intVariables_, boolVariables_, lists_,
                   conditionMetStack_, loopStack_, output, lexerVars>>

\* an exception reaches main(), which hands it to error()
Fail(category) ==
    /\ stage' = "failed"
    /\ err' = category
    /\ UNCHANGED <<tokens, program, frames, intVariables_, boolVariables_, lists_,
                   conditionMetStack_, loopStack_, output, lexerVars>>

\* a simple statement returns to the loop that called visitStatement
Proceed(ints, bools, lists, out) ==
    /\ intVariables_' = ints
    /\ boolVariables_' = bools
    /\ lists_' = lists
    /\ output' = out
    /\ frames' = Advanced
    /\ UNCHANGED <<tokens, program, stage, err, conditionMetStack_, loopStack_, lexerVars>>

\* a step of the control flow that leaves the data alone
Control(newFrames, newConditionMet, newLoops) ==
    /\ frames' = newFrames
    /\ conditionMetStack_' = newConditionMet
    /\ loopStack_' = newLoops
    /\ UNCHANGED <<tokens, program, stage, err, intVariables_, boolVariables_, lists_, output,
                   lexerVars>>

Element(value) == EvaluatedElement(value.type, value.intValue, value.boolValue)

\* what operator<< writes for the element
Printed(value) ==
    IF value.type = "TYPE_INT" THEN ToString(value.intValue)
    ELSE IF value.boolValue THEN "True" ELSE "False"

\* bound on the number of recorded calls (a loop that never ends is cut here)
MaxTrace == 60

-----------------------------------------------------------------------------
(* main(): the parser runs to completion before the visitor starts.         *)

Parse ==
    /\ stage = "parse"
    /\ LET parsed == parseProgram(tokens) IN
       IF parsed.err = "NONE"
       THEN /\ program' = parsed.node
            /\ frames' = <<ProgramFrame(parsed.node)>>
            /\ stage' = "visit"
            /\ err' = "NONE"
       ELSE /\ program' = program
            /\ frames' = frames
            /\ stage' = IF parsed.err = "DIVERGES" THEN "hung" ELSE "failed"
            /\ err' = parsed.err
    /\ UNCHANGED <<tokens, intVariables_, boolVariables_, lists_, conditionMetStack_,
                   loopStack_, output, trace, lexerVars>>

-----------------------------------------------------------------------------
(* Simple statements.                                                       *)

VisitAssignmentStatement ==
    /\ Visiting("ASSIGNMENT_STMT")
    /\ trace' = Append(trace, Event("ASSIGNMENT_STMT", Current.position))
    /\ LET loc == Current.loc
           value == eval(Current.expr) IN
       IF value.err # "NONE" THEN Fail(value.err)
       ELSE IF loc.k = "ID"
       THEN IF isVariableDefined(loc.id)
            THEN LET t == updateVariable(intVariables_, boolVariables_, loc.id, Element(value))
                 IN  Proceed(t.ints, t.bools, lists_, output)
            ELSE IF isListDefined(loc.id)
            THEN LET t == addVariable(intVariables_, boolVariables_, loc.id, Element(value))
                 IN  Proceed(t.ints, t.bools, clear(lists_, loc.id), output)
            ELSE LET t == addVariable(intVariables_, boolVariables_, loc.id, Element(value))
                 IN  Proceed(t.ints, t.bools, lists_, output)
       ELSE IF ~isListDefined(loc.id) THEN Fail("SEMANTIC_ERROR")
       ELSE LET indexValue == eval(loc.index) IN
            IF indexValue.err # "NONE" THEN Fail(indexValue.err)
            ELSE IF indexValue.type # "TYPE_INT" THEN Fail("SEMANTIC_ERROR")
            \* SymbolTable::updateListElement
            ELSE IF indexValue.intValue < 0 \/ indexValue.intValue >= Len(lists_[loc.id])
                 THEN Fail("INTERNAL_ERROR")
            ELSE Proceed(intVariables_, boolVariables_,
                         updateListElement(lists_, loc.id, indexValue.intValue, Element(value)),
                         output)

VisitListDeclarationStatement ==
    /\ Visiting("LIST_DECL_STMT")
    /\ trace' = Append(trace, Event("LIST_DECL_STMT", Current.position))
    /\ IF isAlreadyDefined(Current.id) THEN Fail("SEMANTIC_ERROR")
       ELSE Proceed(intVariables_, boolVariables_, With(lists_, Current.id, <<>>), output)

VisitListAppendStatement ==
    /\ Visiting("LIST_APP_STMT")
    /\ trace' = Append(trace, Event("LIST_APP_STMT", Current.position))
    /\ IF ~isListDefined(Current.id) THEN Fail("SEMANTIC_ERROR")
       ELSE LET value == eval(Current.expr) IN
            IF value.err # "NONE" THEN Fail(value.err)
            ELSE Proceed(intVariables_, boolVariables_,
                         appendToList(lists_, Current.id, Element(value)), output)

VisitPrintStatement ==
    /\ Visiting("PRINT_STMT")
    /\ trace' = Append(trace, Event("PRINT_STMT", Current.position))
    /\ LET value == eval(Current.expr) IN
       IF value.err # "NONE" THEN Fail(value.err)
       ELSE Proceed(intVariables_, boolVariables_, lists_, Append(output, Printed(value)))

\* a variant of the test that never finds the stack empty
OutsideLoopNever == FALSE

\* the test that opens visitBreakStatement and visitContinueStatement:
\* loopStack_.empty()
OutsideLoop == loopStack_ = <<>>

VisitBreakStatement ==
    /\ Visiting("BREAK_STMT")
    /\ trace' = Append(trace, Event("BREAK_STMT", Current.position))
    /\ IF OutsideLoop THEN Fail("SEMANTIC_ERROR")
       ELSE Control(Advanced, conditionMetStack_, SetTop(loopStack_, FALSE))

VisitContinueStatement ==
    /\ Visiting("CONTINUE_STMT")
    /\ trace' = Append(trace, Event("CONTINUE_STMT", Current.position))
    /\ IF OutsideLoop THEN Fail("SEMANTIC_ERROR")
       ELSE Control(Advanced, conditionMetStack_, loopStack_)

-----------------------------------------------------------------------------
(* if / elif / else.                                                        *)

VisitIfStatement ==
    /\ Visiting("IF_STMT")
    /\ trace' = Append(trace, Event("IF_STMT", Current.position))
    /\ LET condValue == eval(Current.expr) IN
       IF condValue.err # "NONE" THEN Fail(condValue.err)
       ELSE IF condValue.type # "TYPE_BOOL"
       THEN \* the new level is already on conditionMetStack_ when the error is thrown
            /\ stage' = "failed"
            /\ err' = "SEMANTIC_ERROR"
            /\ conditionMetStack_' = Append(conditionMetStack_, FALSE)
            /\ UNCHANGED <<tokens, program, frames, intVariables_, boolVariables_, lists_,
                           loopStack_, output, lexerVars>>
       ELSE IF condValue.boolValue
       THEN Control(Append(Advanced, IfFrame(Current, "taken")),
                    Append(conditionMetStack_, TRUE), loopStack_)
       ELSE Control(Append(Advanced, IfFrame(Current, "rest")),
                    Append(conditionMetStack_, FALSE), loopStack_)

\* visitIfStatement is at a block of its statement
AtBlock(blockType) ==
    /\ stage = "visit"
    /\ frames # <<>>
    /\ Top.kind = "visitIfStatement"
    /\ Top.bi <= Len(Top.stmt.blocks)
    /\ Top.stmt.blocks[Top.bi].blockType = blockType

NextBlock == SetTop(frames, [Top EXCEPT !.bi = @ + 1])

\* the call of visitSimpleBlock in the loop of the taken branch
VisitSimpleBlock ==
    /\ AtBlock("SIMPLE_BLOCK")
    /\ Top.phase = "taken"
    /\ LET block == Top.stmt.blocks[Top.bi] IN
       /\ trace' = Append(trace, Event("SIMPLE_BLOCK", block.position))
       /\ Control(Append(NextBlock, BlockFrame(block, "visitIfStatement")),
                  conditionMetStack_, loopStack_)

\* the loop over the elif and else blocks passes over the first block
SkipSimpleBlock ==
    /\ AtBlock("SIMPLE_BLOCK")
    /\ Top.phase = "rest"
    /\ trace' = trace
    /\ Control(NextBlock, conditionMetStack_, loopStack_)

\* a variant of the test that never finds the flag set
ConditionMetIgnored == FALSE

\* the test that opens visitElifBlock and visitElseBlock: a branch of this
\* if statement has already been taken
ConditionMet == conditionMetStack_ # <<>> /\ conditionMetStack_[Len(conditionMetStack_)]

VisitElifBlock ==
    /\ AtBlock("ELIF_BLOCK")
    /\ LET elifBlock == Top.stmt.blocks[Top.bi] IN
       IF ConditionMet
       THEN /\ trace' = trace
            /\ Control(NextBlock, conditionMetStack_, loopStack_)
       ELSE IF conditionMetStack_ = <<>>
       THEN /\ trace' = trace
            /\ Fail("INTERNAL_ERROR")
       ELSE LET condValue == eval(elifBlock.condition) IN
            IF condValue.err # "NONE"
            THEN /\ trace' = Append(trace, Event("ELIF_CONDITION", elifBlock.position))
                 /\ Fail(condValue.err)
            \* getBoolValue() on an Int element
            ELSE IF condValue.type # "TYPE_BOOL"
            THEN /\ trace' = Append(trace, Event("ELIF_CONDITION", elifBlock.position))
                 /\ Fail("INTERNAL_ERROR")
            ELSE IF condValue.boolValue
            THEN /\ trace' = trace \o <<Event("ELIF_CONDITION", elifBlock.position),
                                        Event("SIMPLE_BLOCK", elifBlock.block.position)>>
                 /\ Control(Append(NextBlock, BlockFrame(elifBlock.block, "visitElifBlock")),
                            SetTop(conditionMetStack_, TRUE), loopStack_)
            ELSE /\ trace' = Append(trace, Event("ELIF_CONDITION", elifBlock.position))
                 /\ Control(NextBlock, conditionMetStack_, loopStack_)

VisitElseBlock ==
    /\ AtBlock("ELSE_BLOCK")
    /\ LET elseBlock == Top.stmt.blocks[Top.bi] IN
       IF ConditionMet
       THEN /\ trace' = trace
            /\ Control(NextBlock, conditionMetStack_, loopStack_)
       ELSE IF conditionMetStack_ = <<>>
       THEN /\ trace' = trace
            /\ Fail("INTERNAL_ERROR")
       ELSE /\ trace' = Append(trace, Event("SIMPLE_BLOCK", elseBlock.block.position))
            /\ Control(Append(NextBlock, BlockFrame(elseBlock.block, "visitElseBlock")),
                       conditionMetStack_, loopStack_)

\* the loop of the taken branch is over; the loop over elif and else follows
SecondLoop ==
    /\ stage = "visit"
    /\ frames # <<>>
    /\ Top.kind = "visitIfStatement"
    /\ Top.phase = "taken"
    /\ Top.bi > Len(Top.stmt.blocks)
    /\ trace' = trace
    /\ Control(SetTop(frames, [Top EXCEPT !.phase = "rest", !.bi = 1]),
               conditionMetStack_, loopStack_)

\* a variant of IfReturn that leaves the entry of the statement on
\* conditionMetStack_
IfReturnKeeps ==
    /\ stage = "visit"
    /\ frames # <<>>
    /\ Top.kind = "visitIfStatement"
    /\ Top.phase = "rest"
    /\ Top.bi > Len(Top.stmt.blocks)
    /\ trace' = trace
    /\ Control(Pop(frames), conditionMetStack_, loopStack_)

\* visitIfStatement returns
IfReturn ==
    /\ stage = "visit"
    /\ frames # <<>>
    /\ Top.kind = "visitIfStatement"
    /\ Top.phase = "rest"
    /\ Top.bi > Len(Top.stmt.blocks)
    /\ trace' = trace
    /\ Control(Pop(frames), Pop(conditionMetStack_), loopStack_)

\* visitSimpleBlock returns; visitElifBlock and visitElseBlock then set the
\* top of conditionMetStack_
BlockReturn ==
    /\ stage = "visit"
    /\ frames # <<>>
    /\ Top.kind = "visitSimpleBlock"
    /\ Top.pc > Len(Top.stmts)
    /\ trace' = trace
    /\ Control(Pop(frames),
               IF Top.caller \in {"visitElifBlock", "visitElseBlock"}
               THEN SetTop(conditionMetStack_, TRUE) ELSE conditionMetStack_,
               loopStack_)

-----------------------------------------------------------------------------
(* while.                                                                   *)

VisitWhileStatement ==
    /\ Visiting("WHILE_STMT")
    /\ trace' = Append(trace, Event("WHILE_STMT", Current.position))
    /\ Control(Append(Advanced, WhileFrame(Current)), conditionMetStack_,
               Append(loopStack_, TRUE))

\* the head of the while (true) loop of visitWhileStatement
WhileCondition ==
    /\ stage = "visit"
    /\ frames # <<>>
    /\ Top.kind = "visitWhileStatement"
    /\ Top.phase = "cond"
    /\ Len(trace) < MaxTrace
    /\ trace' = Append(trace, Event("WHILE_CONDITION", Top.stmt.position))
    /\ LET condValue == eval(Top.stmt.expr) IN
       IF condValue.err # "NONE" THEN Fail(condValue.err)
       ELSE IF condValue.type # "TYPE_BOOL" THEN Fail("SEMANTIC_ERROR")
       ELSE IF ~condValue.boolValue \/ ~loopStack_[Len(loopStack_)]
       THEN Control(Pop(frames), conditionMetStack_, Pop(loopStack_))
       ELSE IF Len(Top.stmt.blocks) # 1 THEN Fail("SEMANTIC_ERROR")
       ELSE Control(SetTop(frames, [Top EXCEPT !.phase = "body", !.pc = 1]),
                    conditionMetStack_, loopStack_)

AtBodyStatement(type) ==
    /\ InStatementLoop
    /\ Top.kind = "visitWhileStatement"
    /\ Current.type = type

\* a break statement of the body itself
WhileBreak ==
    /\ AtBodyStatement("BREAK_STMT")
    /\ trace' = Append(trace, Event("BREAK_STMT", Current.position))
    /\ Control(SetTop(frames, [Top EXCEPT !.phase = "cond"]), conditionMetStack_,
               SetTop(loopStack_, FALSE))

\* a continue statement of the body itself: the for loop over the body
\* statements goes on to its next statement
WhileContinue ==
    /\ AtBodyStatement("CONTINUE_STMT")
    /\ trace' = Append(trace, Event("CONTINUE_STMT", Current.position))
    /\ Control(Advanced, conditionMetStack_, loopStack_)

\* the body has been walked to its end
WhileBodyEnd ==
    /\ stage = "visit"
    /\ frames # <<>>
    /\ Top.kind = "visitWhileStatement"
    /\ Top.phase = "body"
    /\ Top.pc > Len(Top.stmts)
    /\ trace' = trace
    /\ Control(SetTop(frames, [Top EXCEPT !.phase = "cond"]), conditionMetStack_, loopStack_)

\* visitProgram returns and main() returns EXIT_SUCCESS
ProgramReturn ==
    /\ stage = "visit"
    /\ frames # <<>>
    /\ Top.kind = "visitProgram"
    /\ Top.pc > Len(Top.stmts)
    /\ stage' = "done"
    /\ frames' = <<>>
    /\ UNCHANGED <<tokens, program, intVariables_, boolVariables_, lists_,
                   conditionMetStack_, loopStack_, output, err, trace, lexerVars>>

-----------------------------------------------------------------------------
(* The lexer (lexer.h, lexer.cpp).  A character is a string of length one,  *)
(* the file a sequence of characters, filePos the number of characters      *)
(* read so far.  One action is one iteration of the loop of                 *)
(* tokenizeInputFile, chosen by the character getChar reads; the iteration  *)
(* is computed on a record of the lexer's members and of the locals of      *)
(* tokenizeInputFile, and Return writes the record back.                    *)

Letters ==
    {"a", "b", "c", "d", "e", "f", "g", "h", "i", "j", "k", "l", "m", "n", "o", "p", "q",
     "r", "s", "t", "u", "v", "w", "x", "y", "z", "A", "B", "C", "D", "E", "F", "G", "H",
     "I", "J", "K", "L", "M", "N", "O", "P", "Q", "R", "S", "T", "U", "V", "W", "X", "Y",
     "Z"}

DigitChars == <<"0", "1", "2", "3", "4", "5", "6", "7", "8", "9">>
Digits == {DigitChars[i] : i \in 1..Len(DigitChars)}
DigitValue(ch) == (CHOOSE i \in 1..Len(DigitChars) : DigitChars[i] = ch) - 1

Blanks   == {" ", "\t"}
LineEnds == {"\n", "\r"}
OperatorChars == {"=", "!", "<", ">", "+", "-", "*", "/"}
PunctuationChars == {":", "."}
BracketChars == {"(", ")", "[", "]"}

\* Token(line, column, type): the token with the position stored in it
Placed(tok, line, column) ==
    [type |-> tok.type, value |-> tok.value, num |-> tok.num, bool |-> tok.bool,
     line |-> line, column |-> column]

\* the members of the lexer and the locals of tokenizeInputFile
Lexer ==
    [filePos |-> filePos, line |-> line_, column |-> column_,
     indentStack |-> indentStack_, parStack |-> parStack_, res |-> res,
     n_t |-> n_t, indent |-> indent, err |-> "NONE"]

\* Lexer::getChar: the next character is read and the counters move
getChar(s) ==
    IF file[s.filePos + 1] = "\n"
    THEN [s EXCEPT !.filePos = @ + 1, !.line = @ + 1, !.column = 0]
    ELSE [s EXCEPT !.filePos = @ + 1, !.column = @ + 1]

\* file.peek(): the character after those read, no character at the end
peek(s) == IF s.filePos < Len(file) THEN file[s.filePos + 1] ELSE ""

\* res.push_back(new ...Token(..., line_, column_))
PushBack(s, tok) == [s EXCEPT !.res = Append(@, Placed(tok, s.line, s.column))]

Throw(s, category) == [s EXCEPT !.err = category]

Back(stack) == stack[Len(stack)]

\* a variant of PopLevels that closes one level only
PopOneLevel(s) ==
    PushBack([s EXCEPT !.indentStack = SubSeq(@, 1, Len(@) - 1)], IndentationToken(FALSE))

RECURSIVE PopLevels(_)
\* the loop that closes the levels deeper than the line: a dedent token for
\* every level popped
PopLevels(s) ==
    IF s.n_t < Back(s.indentStack)
    THEN PopLevels(PushBack([s EXCEPT !.indentStack = SubSeq(@, 1, Len(@) - 1)],
                            IndentationToken(FALSE)))
    ELSE s

\* the indentation check, made when the character read is neither a blank
\* nor a line end and indent is set
CheckIndentation(s) ==
    IF ~s.indent THEN s
    ELSE LET t == [s EXCEPT !.indent = FALSE] IN
         IF s.n_t > Back(s.indentStack)
         THEN [PushBack([t EXCEPT !.indentStack = Append(@, s.n_t)], IndentationToken(TRUE))
                  EXCEPT !.n_t = 0]
         ELSE IF s.n_t < Back(s.indentStack)
         THEN LET p == PopLevels(t) IN
              IF p.n_t # Back(p.indentStack) THEN Throw(p, "INDENTATION_ERROR")
              ELSE [p EXCEPT !.n_t = 0]
         ELSE [t EXCEPT !.n_t = 0]

RECURSIVE ReadWord(_, _)
\* the inner loop that reads a word: letters and digits are read while
\* peek() is one
ReadWord(s, word) ==
    IF peek(s) \in Letters \cup Digits
    THEN ReadWord(getChar(s), word \o peek(s))
    ELSE [s |-> s, word |-> word]

\* the largest value of an int: std::stoi throws std::out_of_range above it
INT_MAX == 2147483647

RECURSIVE ReadNumber(_, _)
\* the inner loop that reads a number; value is what std::stoi gives for the
\* digits read, -1 where it throws std::out_of_range
ReadNumber(s, value) ==
    IF peek(s) \in Digits
    THEN ReadNumber(getChar(s),
                    IF value < 0 \/ value > (INT_MAX - DigitValue(peek(s))) \div 10 THEN -1
                    ELSE 10 * value + DigitValue(peek(s)))
    ELSE [s |-> s, value |-> value]

Keywords ==
    {"if", "elif", "else", "while", "continue", "break", "list", "append", "print"}

\* the enum value the constructor of ReservedKeywordToken gives the word
KeywordValue(word) ==
    CASE word = "if"       -> "IF"
      [] word = "elif"     -> "ELIF"
      [] word = "else"     -> "ELSE"
      [] word = "while"    -> "WHILE"
      [] word = "continue" -> "CONTINUE"
      [] word = "break"    -> "BREAK"
      [] word = "list"     -> "LIST"
      [] word = "append"   -> "APPEND"
      [] OTHER             -> "PRINT"

\* the token made of a word
WordToken(word) ==
    IF word \in Keywords THEN ReservedKeywordToken(KeywordValue(word))
    ELSE IF word = "and" THEN BoolOpToken("AND")
    ELSE IF word = "or" THEN BoolOpToken("OR")
    ELSE IF word = "not" THEN BoolOpToken("NOT")
    ELSE IF word = "True" THEN BoolToken(TRUE)
    ELSE IF word = "False" THEN BoolToken(FALSE)
    ELSE IdToken(word)

\* the character read is a letter
ScanWord(s, ch) ==
    LET read == ReadWord(s, ch) IN PushBack(read.s, WordToken(read.word))

\* the character read is a digit
ScanNumber(s, ch) ==
    IF ch # "0"
    THEN LET read == ReadNumber(s, DigitValue(ch)) IN
         IF read.value < 0 THEN Throw(read.s, "std::out_of_range")
         ELSE PushBack(read.s, NumberToken(read.value))
    ELSE IF peek(s) \in Digits THEN Throw(s, "LEXICAL_ERROR")
    ELSE PushBack(s, NumberToken(0))

\* the character read is one of = ! < > + - * /
ScanOperator(s, ch) ==
    CASE ch = "=" -> IF peek(s) = "=" THEN PushBack(getChar(s), RelationalToken("EQ"))
                     ELSE PushBack(s, AssignmentToken)
      [] ch = "!" -> IF peek(s) = "=" THEN PushBack(getChar(s), RelationalToken("NEQ"))
                     ELSE Throw(s, "LEXICAL_ERROR")
      [] ch = "<" -> IF peek(s) = "=" THEN PushBack(getChar(s), RelationalToken("LE"))
                     ELSE PushBack(s, RelationalToken("LT"))
      [] ch = ">" -> IF peek(s) = "=" THEN PushBack(getChar(s), RelationalToken("GE"))
                     ELSE PushBack(s, RelationalToken("GT"))
      [] ch = "+" -> PushBack(s, ArithmeticToken("ADD"))
      [] ch = "-" -> PushBack(s, ArithmeticToken("SUB"))
      [] ch = "*" -> PushBack(s, ArithmeticToken("MUL"))
      [] OTHER    -> IF peek(s) = "/" THEN PushBack(getChar(s), ArithmeticToken("DIV"))
                     ELSE Throw(s, "LEXICAL_ERROR")

\* the character read is ( or [: parStack_ notes 1 for ( and 0 for [
ScanLeftBracket(s, ch) ==
    IF ch = "("
    THEN [PushBack(s, PunctuationToken("LPAR")) EXCEPT !.parStack = Append(@, 1)]
    ELSE [PushBack(s, PunctuationToken("LBRACK")) EXCEPT !.parStack = Append(@, 0)]

\* the test made at ) and ] with parStack_ not empty, and at ) with
\* parStack_ empty: the bracket does not close the one opened last
Mismatched(stack, ch) ==
    IF ch = ")" THEN stack = <<>> \/ Back(stack) = 0 ELSE Back(stack) = 1

\* the character read is ) or ], and parStack_.back() can be read
ScanRightBracket(s, ch) ==
    LET t == PushBack(s, PunctuationToken(IF ch = ")" THEN "RPAR" ELSE "RBRACK")) IN
    IF Mismatched(s.parStack, ch) THEN Throw(t, "LEXICAL_ERROR")
    ELSE [t EXCEPT !.parStack = SubSeq(@, 1, Len(@) - 1)]

\* a variant of CloseLevels that closes the levels without a token
CloseLevelsSilent(s) == [s EXCEPT !.indentStack = <<0>>]

RECURSIVE CloseLevels(_)
\* the loop after the end of the file: a dedent token for every level open
CloseLevels(s) ==
    IF Len(s.indentStack) > 1
    THEN CloseLevels(PushBack([s EXCEPT !.indentStack = SubSeq(@, 1, Len(@) - 1)],
                              IndentationToken(FALSE)))
    ELSE s

visitorVars ==
    <<program, frames, intVariables_, boolVariables_, lists_, conditionMetStack_,
      loopStack_, output, trace>>

\* the iteration ends: the loop goes on, or the exception reaches main(),
\* whose handler takes an Error; std::out_of_range is none, and the run ends
\* in std::terminate without a call of error()
Return(s) ==
    /\ filePos' = s.filePos
    /\ line_' = s.line
    /\ column_' = s.column
    /\ indentStack_' = s.indentStack
    /\ parStack_' = s.parStack
    /\ res' = s.res
    /\ n_t' = s.n_t
    /\ indent' = s.indent
    /\ stage' = IF s.err = "NONE" THEN stage
                ELSE IF s.err = "std::out_of_range" THEN "aborted"
                ELSE "failed"
    /\ err' = IF s.err = "std::out_of_range" THEN "NONE" ELSE s.err
    /\ UNCHANGED <<file, tokens>>
    /\ UNCHANGED visitorVars

\* getChar reads a character of the set
AtChar(chars) ==
    /\ stage = "lex"
    /\ filePos < Len(file)
    /\ file[filePos + 1] \in chars

Ch == file[filePos + 1]

\* a space or a tab: counted when it leads the line, passed over otherwise;
\* the last test of the loop body lets only the space through
LexBlank ==
    /\ AtChar(Blanks)
    /\ LET s == getChar(Lexer) IN
       IF res = <<>> \/ (Back(res).type = "NEWLINE_TOKEN" /\ indent)
       THEN Return([s EXCEPT !.n_t = @ + (IF Ch = "\t" THEN 4 ELSE 1)])
       ELSE IF Ch # " " THEN Return(Throw(s, "LEXICAL_ERROR"))
       ELSE Return(s)

LexNewLine ==
    /\ AtChar(LineEnds)
    /\ Return(PushBack([getChar(Lexer) EXCEPT !.indent = TRUE, !.n_t = 0], NewLineToken))

LexWord ==
    /\ AtChar(Letters)
    /\ LET s == CheckIndentation(getChar(Lexer)) IN
       Return(IF s.err # "NONE" THEN s ELSE ScanWord(s, Ch))

LexNumber ==
    /\ AtChar(Digits)
    /\ LET s == CheckIndentation(getChar(Lexer)) IN
       Return(IF s.err # "NONE" THEN s ELSE ScanNumber(s, Ch))

LexOperator ==
    /\ AtChar(OperatorChars)
    /\ LET s == CheckIndentation(getChar(Lexer)) IN
       Return(IF s.err # "NONE" THEN s ELSE ScanOperator(s, Ch))

LexPunctuation ==
    /\ AtChar(PunctuationChars)
    /\ LET s == CheckIndentation(getChar(Lexer)) IN
       Return(IF s.err # "NONE" THEN s
              ELSE PushBack(s, PunctuationToken(IF Ch = ":" THEN "COL" ELSE "PERIOD")))

\* At ] the test reads parStack_.back() before it asks parStack_.empty():
\* with no bracket open the read is outside the vector, and the run either
\* goes on to throw the error or ends there without a diagnostic.
LexBracket ==
    /\ AtChar(BracketChars)
    /\ LET s == CheckIndentation(getChar(Lexer)) IN
       IF s.err # "NONE" THEN Return(s)
       ELSE IF Ch \in {"(", "["} THEN Return(ScanLeftBracket(s, Ch))
       ELSE IF Ch = "]" /\ s.parStack = <<>>
       THEN \E outcome \in {"LEXICAL_ERROR", "CRASH"} :
                IF outcome = "CRASH"
                THEN /\ stage' = "crashed"
                     /\ res' = PushBack(s, PunctuationToken("RBRACK")).res
                     /\ filePos' = s.filePos
                     /\ line_' = s.line
                     /\ column_' = s.column
                     /\ indentStack_' = s.indentStack
                     /\ indent' = s.indent
                     /\ n_t' = s.n_t
                     /\ UNCHANGED <<file, tokens, parStack_, err>>
                     /\ UNCHANGED visitorVars
                ELSE Return(Throw(PushBack(s, PunctuationToken("RBRACK")), outcome))
       ELSE Return(ScanRightBracket(s, Ch))

\* any other character
LexInvalid ==
    /\ AtChar({file[i] : i \in 1..Len(file)}
              \ (Letters \cup Digits \cup Blanks \cup LineEnds \cup OperatorChars
                 \cup PunctuationChars \cup BracketChars))
    /\ LET s == CheckIndentation(getChar(Lexer)) IN
       Return(IF s.err # "NONE" THEN s ELSE Throw(s, "LEXICAL_ERROR"))

\* getChar finds the end of the file: the brackets are checked, the open
\* levels closed, the end-of-file token added, and main() gets the vector
LexEnd ==
    /\ stage = "lex"
    /\ filePos = Len(file)
    /\ IF parStack_ # <<>>
       THEN /\ Return(Throw(Lexer, "LEXICAL_ERROR"))
       ELSE LET s == PushBack(CloseLevels(Lexer), EndOfFileToken) IN
            /\ res' = s.res
            /\ indentStack_' = s.indentStack
            /\ tokens' = s.res
            /\ stage' = "parse"
            /\ UNCHANGED <<file, filePos, line_, column_, parStack_, n_t, indent, err>>
            /\ UNCHANGED visitorVars

-----------------------------------------------------------------------------
(* Input.  The parser starts from the token vector that the lexer built    *)
(* from the source file (lexer.cpp): one NEWLINE token per line, an indent  *)
(* token before the first token of a deeper line, a dedent token for every  *)
(* level that closes, and the end-of-file token last.  The operators below  *)
(* write the token vector of a source text.                                 *)

N(n)  == <<NumberToken(n)>>
B(b)  == <<BoolToken(b)>>
V(id) == <<IdToken(id)>>
Arit(l, op, r) == l \o <<ArithmeticToken(op)>> \o r
Rel(l, op, r)  == l \o <<RelationalToken(op)>> \o r
BoolOp(l, op, r) == l \o <<BoolOpToken(op)>> \o r
Not(e) == <<BoolOpToken("NOT")>> \o e
Neg(e) == <<ArithmeticToken("SUB")>> \o e
Par(e) == <<PunctuationToken("LPAR")>> \o e \o <<PunctuationToken("RPAR")>>
Elem(id, e) == <<IdToken(id), PunctuationToken("LBRACK")>> \o e \o <<PunctuationToken("RBRACK")>>

PrintLine(e) ==
    <<ReservedKeywordToken("PRINT"), PunctuationToken("LPAR")>> \o e
    \o <<PunctuationToken("RPAR"), NewLineToken>>
AssignLine(target, e) == target \o <<AssignmentToken>> \o e \o <<NewLineToken>>
ListLine(id) ==
    <<IdToken(id), AssignmentToken, ReservedKeywordToken("LIST"), PunctuationToken("LPAR"),
      PunctuationToken("RPAR"), NewLineToken>>
AppendLine(id, e) ==
    <<IdToken(id), PunctuationToken("PERIOD"), ReservedKeywordToken("APPEND"),
      PunctuationToken("LPAR")>> \o e \o <<PunctuationToken("RPAR"), NewLineToken>>
BreakLine    == <<ReservedKeywordToken("BREAK"), NewLineToken>>
ContinueLine == <<ReservedKeywordToken("CONTINUE"), NewLineToken>>
Indented(lines) == <<IndentationToken(TRUE)>> \o lines \o <<IndentationToken(FALSE)>>
IfLines(cond, lines) ==
    <<ReservedKeywordToken("IF")>> \o cond \o <<PunctuationToken("COL"), NewLineToken>>
    \o Indented(lines)
ElifLines(cond, lines) ==
    <<ReservedKeywordToken("ELIF")>> \o cond \o <<PunctuationToken("COL"), NewLineToken>>
    \o Indented(lines)
ElseLines(lines) ==
    <<ReservedKeywordToken("ELSE"), PunctuationToken("COL"), NewLineToken>> \o Indented(lines)
WhileLines(cond, lines) ==
    <<ReservedKeywordToken("WHILE")>> \o cond \o <<PunctuationToken("COL"), NewLineToken>>
    \o Indented(lines)
Source(lines) == lines \o <<EndOfFileToken>>

\* i = 0; while i < limit: (if i == stop: break); print(i); i = i + 1
CountingLoop(limit, stop) ==
    Source(AssignLine(V("i"), N(0))
           \o WhileLines(Rel(V("i"), "LT", N(limit)),
                  IfLines(Rel(V("i"), "EQ", N(stop)), BreakLine)
                  \o PrintLine(V("i"))
                  \o AssignLine(V("i"), Arit(V("i"), "ADD", N(1)))))

\* while True: print(1); <lines holding a break>; print(2)
BreakLoop(lines) ==
    Source(WhileLines(B(TRUE), PrintLine(N(1)) \o lines \o PrintLine(N(2))))

BreakPlacements ==
    { BreakLine,
      IfLines(B(TRUE), BreakLine),
      IfLines(B(FALSE), PrintLine(N(0))) \o ElifLines(B(TRUE), BreakLine),
      IfLines(B(FALSE), PrintLine(N(0))) \o ElseLines(BreakLine),
      IfLines(B(TRUE), BreakLine \o PrintLine(N(3))) }

BreakSources == {CountingLoop(10, 3)} \cup {BreakLoop(lines) : lines \in BreakPlacements}

\* i = 0; while i < 2: i = i + 1; <lines holding a continue>; print(i)
ContinueLoop(lines) ==
    Source(AssignLine(V("i"), N(0))
           \o WhileLines(Rel(V("i"), "LT", N(2)),
                  AssignLine(V("i"), Arit(V("i"), "ADD", N(1)))
                  \o lines
                  \o PrintLine(V("i"))))

ContinuePlacements ==
    { ContinueLine,
      IfLines(B(TRUE), ContinueLine),
      IfLines(Rel(V("i"), "EQ", N(1)), ContinueLine) }

ContinueSources == {ContinueLoop(lines) : lines \in ContinuePlacements}

\* print(True or E) and print(False and E)
ShortCircuitOperands ==
    { V("x"), Elem("L", N(0)), B(TRUE), B(FALSE),
      Rel(Arit(N(1), "DIV", N(0)), "EQ", N(0)) }

OrSource(E)  == Source(PrintLine(BoolOp(B(TRUE), "OR", E)))
AndSource(E) == Source(PrintLine(BoolOp(B(FALSE), "AND", E)))

ShortCircuitSources ==
    {OrSource(E) : E \in ShortCircuitOperands} \cup {AndSource(E) : E \in ShortCircuitOperands}

\* print(t1 op1 t2 op2 t3) and print(t1 op1 t2)
AdditiveOperators == {"ADD", "SUB"}
AdditiveTerms == {1, 2, 3}
AdditiveChain(t1, op1, t2, op2, t3) ==
    Source(PrintLine(Arit(Arit(N(t1), op1, N(t2)), op2, N(t3))))
AdditivePair(t1, op1, t2) == Source(PrintLine(Arit(N(t1), op1, N(t2))))

AdditiveSources ==
    {AdditiveChain(t1, op1, t2, op2, t3) :
        t1 \in AdditiveTerms, op1 \in AdditiveOperators, t2 \in AdditiveTerms,
        op2 \in AdditiveOperators, t3 \in AdditiveTerms}
    \cup {AdditivePair(t1, op1, t2) :
            t1 \in AdditiveTerms, op1 \in AdditiveOperators, t2 \in AdditiveTerms}

\* print(a op1 b op2 c)
MultiplicativeOperators == {"MUL", "DIV"}
MultiplicativeOperands == {2, 3, 4, 8}
MultiplicativeChain(a, op1, b, op2, c) ==
    Source(PrintLine(Arit(Arit(N(a), op1, N(b)), op2, N(c))))

MultiplicativeSources ==
    {MultiplicativeChain(a, op1, b, op2, c) :
        a \in MultiplicativeOperands, op1 \in MultiplicativeOperators,
        b \in MultiplicativeOperands, op2 \in MultiplicativeOperators,
        c \in MultiplicativeOperands}

\* print(e1 and e2 and e3) and print(e1 and e2)
AndChain(e1, e2, e3) == Source(PrintLine(BoolOp(BoolOp(B(e1), "AND", B(e2)), "AND", B(e3))))
AndPair(e1, e2) == Source(PrintLine(BoolOp(B(e1), "AND", B(e2))))

AndSources ==
    {AndChain(e1, e2, e3) : e1 \in BOOLEAN, e2 \in BOOLEAN, e3 \in BOOLEAN}
    \cup {AndPair(e1, e2) : e1 \in BOOLEAN, e2 \in BOOLEAN}

\* if c1: print(1) / elif c: print(1 + k) for the k-th elif / else: print(9),
\* followed by print(0).  A condition is "T", "F", or "E", a condition whose
\* evaluation raises ZERO_DIVISION.
Condition(c) ==
    IF c = "T" THEN B(TRUE)
    ELSE IF c = "F" THEN B(FALSE)
    ELSE Rel(Arit(N(1), "DIV", N(0)), "EQ", N(0))

RECURSIVE ElifChain(_, _)
ElifChain(cs, k) ==
    IF k > Len(cs) THEN <<>>
    ELSE ElifLines(Condition(cs[k]), PrintLine(N(1 + k))) \o ElifChain(cs, k + 1)

IfSource(c1, cs, withElse) ==
    Source(IfLines(Condition(c1), PrintLine(N(1)))
           \o ElifChain(cs, 1)
           \o (IF withElse THEN ElseLines(PrintLine(N(9))) ELSE <<>>)
           \o PrintLine(N(0)))

\* the longest chain of elif blocks in the sources
MaxElifs == 2

ElifConditions ==
    UNION {[1..n -> {"T", "F", "E"}] : n \in 0..MaxElifs}

\* if c1: (if c2: print(1) else: print(5)) elif True: print(2) else: print(9)
NestedIfSource(c1, c2) ==
    Source(IfLines(Condition(c1),
                   IfLines(Condition(c2), PrintLine(N(1))) \o ElseLines(PrintLine(N(5))))
           \o ElifLines(B(TRUE), PrintLine(N(2)))
           \o ElseLines(PrintLine(N(9)))
           \o PrintLine(N(0)))

IfSources ==
    {IfSource(c1, cs, withElse) :
        c1 \in {"T", "F"}, cs \in ElifConditions, withElse \in BOOLEAN}
    \cup {NestedIfSource(c1, c2) : c1 \in {"T", "F"}, c2 \in {"T", "F"}}

\* n = 1; b = True; z = 0; L = list(); L.append(2); L.append(True); L.append(0)
Prelude ==
    AssignLine(V("n"), N(1)) \o AssignLine(V("b"), B(TRUE)) \o AssignLine(V("z"), N(0))
    \o ListLine("L") \o AppendLine("L", N(2)) \o AppendLine("L", B(TRUE))
    \o AppendLine("L", N(0))

\* operands of type Int and of type Bool after the prelude
IntOperands  == { N(1), V("n"), Elem("L", N(0)), Par(Arit(N(1), "DIV", N(0))) }
BoolOperands == { B(TRUE), V("b"), Elem("L", N(1)), Par(Rel(N(1), "LT", N(2))) }

IntOperators == {"ADD", "SUB", "MUL", "DIV", "LT", "LE", "GT", "GE"}
Binary(l, op, r) ==
    IF op \in {"ADD", "SUB", "MUL", "DIV"} THEN Arit(l, op, r)
    ELSE IF op \in {"AND", "OR"} THEN BoolOp(l, op, r)
    ELSE Rel(l, op, r)

\* expressions that apply an operator to an operand of a type it rejects
IllTyped ==
    {Binary(l, op, r) : l \in IntOperands \cup BoolOperands, op \in IntOperators,
                        r \in BoolOperands}
    \cup {Binary(l, op, r) : l \in BoolOperands, op \in IntOperators, r \in IntOperands}
    \cup {Neg(e) : e \in BoolOperands}
    \cup {Not(e) : e \in IntOperands \cup {Neg(N(1))}}
    \cup {Binary(l, op, r) : l \in IntOperands \cup BoolOperands, op \in {"AND", "OR"},
                             r \in IntOperands}
    \cup {Binary(l, op, r) : l \in IntOperands, op \in {"AND", "OR"}, r \in BoolOperands}
    \cup {Binary(l, op, r) : l \in IntOperands, op \in {"EQ", "NEQ"}, r \in BoolOperands}
    \cup {Binary(l, op, r) : l \in BoolOperands, op \in {"EQ", "NEQ"}, r \in IntOperands}

\* expressions that apply an operator to operands of the types it accepts
WellTyped ==
    {Binary(N(3), op, V("n")) : op \in IntOperators}
    \cup {Binary(B(FALSE), op, V("b")) : op \in {"AND", "OR", "EQ", "NEQ"}}
    \cup {Neg(V("n")), Not(V("b")), Binary(N(1), "EQ", V("n"))}

PrintSource(e)  == Source(Prelude \o PrintLine(e))
AssignSource(e) == Source(Prelude \o AssignLine(V("y"), e) \o PrintLine(V("y")))

IllTypedSources  == {PrintSource(e) : e \in IllTyped} \cup {AssignSource(e) : e \in IllTyped}
WellTypedSources == {PrintSource(e) : e \in WellTyped} \cup {AssignSource(e) : e \in WellTyped}

TypeSources == IllTypedSources \cup WellTypedSources

\* a // e with e evaluating to 0
Dividends == { N(5), N(0), Neg(N(7)), V("n"), Elem("L", N(0)), Par(Arit(N(2), "MUL", N(3))) }
ZeroDivisors ==
    { N(0), V("z"), Elem("L", N(2)), Neg(N(0)), Par(Arit(N(1), "SUB", V("n"))),
      Par(Arit(N(0), "MUL", N(4))) }
NonZeroDivisors == { N(2), V("n"), Neg(N(3)) }

Division(a, e) == Arit(a, "DIV", e)

ZeroDivisionSources ==
    {PrintSource(Division(a, e)) : a \in Dividends, e \in ZeroDivisors}
    \cup {AssignSource(Division(a, e)) : a \in Dividends, e \in ZeroDivisors}

DivisionSources ==
    ZeroDivisionSources
    \cup {PrintSource(Division(a, e)) : a \in Dividends, e \in NonZeroDivisors}
    \cup {AssignSource(Division(a, e)) : a \in Dividends, e \in NonZeroDivisors}

\* sequences of statements that bind and rebind the names x and y
BindingLines ==
    { AssignLine(V("x"), N(1)), AssignLine(V("x"), B(TRUE)), ListLine("x"),
      AppendLine("x", N(2)), AssignLine(Elem("x", N(0)), B(FALSE)),
      AssignLine(V("y"), V("x")), ListLine("y") }

\* the number of statements of a binding source
BindingLength == 3

RECURSIVE Flatten(_, _)
Flatten(lines, k) == IF k > Len(lines) THEN <<>> ELSE lines[k] \o Flatten(lines, k + 1)

BindingSources ==
    {Source(Flatten(lines, 1)) : lines \in [1..BindingLength -> BindingLines]}

\* L = list(); L.append(v) for each v of vs; print(L[i]) for each index i.
\* A value is written as the text print gives it.
AppendValues == {"5", "True", "False"}

Literal(text) ==
    IF text = "True" THEN B(TRUE) ELSE IF text = "False" THEN B(FALSE) ELSE N(5)

RECURSIVE AppendLines(_, _)
AppendLines(vs, k) ==
    IF k > Len(vs) THEN <<>> ELSE AppendLine("L", Literal(vs[k])) \o AppendLines(vs, k + 1)

RECURSIVE ReadLines(_, _)
ReadLines(n, i) ==
    IF i >= n THEN <<>> ELSE PrintLine(Elem("L", N(i))) \o ReadLines(n, i + 1)

AppendSource(vs) ==
    Source(ListLine("L") \o AppendLines(vs, 1) \o ReadLines(Len(vs), 0))

\* the largest number of appends in an append source
MaxAppends == 3

AppendSequences == UNION {[1..n -> AppendValues] : n \in 0..MaxAppends}

AppendSources == {AppendSource(vs) : vs \in AppendSequences}

\* after the prelude (L = [2, True, 0], n = 1, z = 0): L[e] = E; print(L[0])
IndexExpressions ==
    { N(0), N(1), N(2), N(3), N(7), Neg(N(1)), V("n"), V("z"),
      Arit(V("n"), "ADD", N(1)), Arit(V("n"), "ADD", N(2)), Elem("L", N(2)) }
AssignedExpressions == { N(9), B(FALSE), V("b"), Elem("L", N(0)) }

IndexedAssignSource(e, E) ==
    Source(Prelude \o AssignLine(Elem("L", e), E) \o PrintLine(Elem("L", N(0))))

IndexedAssignSources ==
    {IndexedAssignSource(e, E) : e \in IndexExpressions, E \in AssignedExpressions}

\* after the prelude (L has three elements): print(e) with e holding a read
\* of L at an index outside 0..2, alone or as an operand
OutOfRangeIndexes == { N(5), N(3), Neg(N(1)), Arit(V("n"), "ADD", N(2)) }

OutOfRangeContexts(read) ==
    { read, Par(read), Arit(read, "ADD", N(1)), Arit(N(1), "MUL", read),
      Rel(read, "EQ", N(0)), Rel(read, "LT", N(1)), Not(read), Neg(read),
      BoolOp(read, "OR", B(TRUE)), BoolOp(B(TRUE), "AND", read) }

OutOfRangeReads == UNION {OutOfRangeContexts(Elem("L", e)) : e \in OutOfRangeIndexes}

OutOfRangeReadSources == {PrintSource(e) : e \in OutOfRangeReads}

\* print(1); <lines holding a break or a continue outside any loop>; print(2)
JumpLines == {BreakLine, ContinueLine}

ExecutedPlacements(jump) ==
    { jump,
      IfLines(B(TRUE), jump),
      IfLines(B(TRUE), PrintLine(N(3)) \o jump \o PrintLine(N(4))),
      IfLines(B(FALSE), PrintLine(N(0))) \o ElifLines(B(TRUE), jump),
      IfLines(B(FALSE), PrintLine(N(0))) \o ElseLines(jump),
      IfLines(B(TRUE), IfLines(B(TRUE), jump)),
      WhileLines(B(FALSE), PrintLine(N(0))) \o jump }

SkippedPlacements(jump) ==
    { IfLines(B(FALSE), jump),
      IfLines(B(TRUE), PrintLine(N(3))) \o ElifLines(B(TRUE), jump),
      IfLines(B(TRUE), PrintLine(N(3))) \o ElseLines(jump),
      IfLines(B(FALSE), PrintLine(N(0))) \o ElifLines(B(FALSE), jump),
      IfLines(B(TRUE), IfLines(B(FALSE), jump)) }

OutsideLoopSource(lines) == Source(PrintLine(N(1)) \o lines \o PrintLine(N(2)))

ExecutedOutsideLoopSources ==
    {OutsideLoopSource(lines) : lines \in UNION {ExecutedPlacements(jump) : jump \in JumpLines}}

SkippedOutsideLoopSources ==
    {OutsideLoopSource(lines) : lines \in UNION {SkippedPlacements(jump) : jump \in JumpLines}}

\* n = 1, then an if, an elif or a while whose condition evaluates to an Int
IntConditions == { N(1), N(0), V("n"), Arit(V("n"), "ADD", N(2)), Par(N(1)) }

IntConditionStatements(c) ==
    { IfLines(c, PrintLine(N(1))),
      IfLines(c, PrintLine(N(1))) \o ElseLines(PrintLine(N(9))),
      IfLines(B(FALSE), PrintLine(N(1))) \o ElifLines(c, PrintLine(N(2))),
      IfLines(B(FALSE), PrintLine(N(1))) \o ElifLines(c, PrintLine(N(2)))
          \o ElseLines(PrintLine(N(9))),
      WhileLines(c, PrintLine(N(1)) \o BreakLine) }

IntConditionSource(lines) == Source(AssignLine(V("n"), N(1)) \o lines \o PrintLine(N(0)))

IntConditionSources ==
    {IntConditionSource(lines) : lines \in UNION {IntConditionStatements(c) : c \in IntConditions}}

\* print(1); <a line that starts with a token no statement starts with>;
\* print(2), at the top level and in the block of an if
StrayLines ==
    { N(5) \o <<NewLineToken>>,
      <<ArithmeticToken("ADD"), NewLineToken>>,
      <<RelationalToken("EQ")>> \o N(1) \o <<NewLineToken>>,
      <<PunctuationToken("COL"), NewLineToken>>,
      <<ReservedKeywordToken("LIST"), NewLineToken>>,
      <<ReservedKeywordToken("APPEND"), NewLineToken>>,
      ElifLines(B(TRUE), PrintLine(N(3))),
      ElseLines(PrintLine(N(3))) }

StraySources ==
    {Source(PrintLine(N(1)) \o stray \o PrintLine(N(2))) : stray \in StrayLines}
    \cup {Source(IfLines(B(TRUE), PrintLine(N(1)) \o stray \o PrintLine(N(2)))) :
            stray \in StrayLines}

\* i = 0; while i < 2: i = i + 1; if i == 1: (while True: <lines>; break)
\* elif i == 2: (if True: print(i)); print(9)
NestedLoopLines ==
    { <<>>,
      PrintLine(V("i")),
      IfLines(B(TRUE), BreakLine),
      IfLines(B(FALSE), PrintLine(N(0))) \o ElseLines(IfLines(B(TRUE), BreakLine)),
      ContinueLine,
      WhileLines(B(TRUE), IfLines(B(TRUE), BreakLine) \o BreakLine) }

NestedLoopSource(lines) ==
    Source(AssignLine(V("i"), N(0))
           \o WhileLines(Rel(V("i"), "LT", N(2)),
                  AssignLine(V("i"), Arit(V("i"), "ADD", N(1)))
                  \o IfLines(Rel(V("i"), "EQ", N(1)),
                             WhileLines(B(TRUE), lines \o BreakLine))
                  \o ElifLines(Rel(V("i"), "EQ", N(2)),
                               IfLines(B(TRUE), PrintLine(V("i")))))
           \o PrintLine(N(9)))

NestedLoopSources == {NestedLoopSource(lines) : lines \in NestedLoopLines}

Sources ==
    BreakSources \cup ContinueSources \cup ShortCircuitSources \cup AdditiveSources
    \cup MultiplicativeSources \cup AndSources \cup IfSources \cup TypeSources
    \cup DivisionSources \cup BindingSources \cup AppendSources
    \cup IndexedAssignSources \cup OutOfRangeReadSources
    \cup ExecutedOutsideLoopSources \cup SkippedOutsideLoopSources
    \cup IntConditionSources \cup StraySources
    \cup NestedLoopSources

\* Files of the lexer.  A line of an indentation file is its leading blanks
\* and one name.
RECURSIVE Spaces(_)
Spaces(w) == IF w = 0 THEN <<>> ELSE <<" ">> \o Spaces(w - 1)

RECURSIVE IndentedLines(_, _)
IndentedLines(leads, k) ==
    IF k > Len(leads) THEN <<>>
    ELSE leads[k] \o <<"x", "\n">> \o IndentedLines(leads, k + 1)

\* the leading widths of the lines of a file indented with spaces
Widths == {0, 2, 4, 6}

\* the largest number of lines of a file indented with spaces
MaxLines == 4

SpaceLeads == {Spaces(w) : w \in Widths}

SpaceIndentFiles ==
    {IndentedLines(leads, 1) : leads \in UNION {[1..n -> SpaceLeads] : n \in 1..MaxLines}}

TabLeads ==
    { <<>>, <<"\t">>, Spaces(4), <<"\t", "\t">>, <<" ", " ", "\t">>, <<"\t", " ", " ">>,
      Spaces(8) }

TabIndentFiles == {IndentedLines(leads, 1) : leads \in [1..3 -> TabLeads]}

IndentFiles == SpaceIndentFiles \cup TabIndentFiles

\* files with tokens of every kind, of one and of several characters
PositionFiles ==
    {
      \* x = 10\n
      <<"x", " ", "=", " ", "1", "0", "\n">>,
      \* if ab == 1:\n  print(ab)\n
      <<"i", "f", " ", "a", "b", " ", "=", "=", " ", "1", ":", "\n", " ", " ", "p",
        "r", "i", "n", "t", "(", "a", "b", ")", "\n">>,
      \* a<=12//3\n
      <<"a", "<", "=", "1", "2", "/", "/", "3", "\n">>,
      \* b != c >= 0\n
      <<"b", " ", "!", "=", " ", "c", " ", ">", "=", " ", "0", "\n">>,
      \* while True:\n    L.append(x1)\n
      <<"w", "h", "i", "l", "e", " ", "T", "r", "u", "e", ":", "\n", " ", " ", " ",
        " ", "L", ".", "a", "p", "p", "e", "n", "d", "(", "x", "1", ")", "\n">>,
      \* y = L[0] + (2 - 3) * 4\n
      <<"y", " ", "=", " ", "L", "[", "0", "]", " ", "+", " ", "(", "2", " ", "-", " ",
        "3", ")", " ", "*", " ", "4", "\n">>,
      \* n = not z or w and False\nq = a < b > c\n
      <<"n", " ", "=", " ", "n", "o", "t", " ", "z", " ", "o", "r", " ", "w", " ", "a",
        "n", "d", " ", "F", "a", "l", "s", "e", "\n", "q", " ", "=", " ", "a", " ",
        "<", " ", "b", " ", ">", " ", "c", "\n">>,
      \* x = 1\n\ny = 2
      <<"x", " ", "=", " ", "1", "\n", "\n", "y", " ", "=", " ", "2">>,
      \* k=7\r\nm=0\n
      <<"k", "=", "7", "\r", "\n", "m", "=", "0", "\n">>
    }

\* x = 1 with a separator after each of its three tokens
Separators == { <<>>, <<" ">>, <<"\t">>, <<" ", " ">>, <<" ", "\t">> }

AssignFile(s1, s2, s3) == <<"x">> \o s1 \o <<"=">> \o s2 \o <<"1">> \o s3 \o <<"\n">>

BlankFiles == {AssignFile(s1, s2, s3) : s1 \in Separators, s2 \in Separators, s3 \in Separators}

\* an indented line holding a name and a run of brackets
RECURSIVE Run(_, _)
Run(f, k) == IF k > Len(f) THEN <<>> ELSE <<f[k]>> \o Run(f, k + 1)

BracketFile(brackets) == <<" ", "x">> \o brackets \o <<"\n">>

\* the largest number of brackets of a bracket file
MaxBrackets == 4

BracketRuns == UNION {[1..n -> BracketChars] : n \in 0..MaxBrackets}

BracketFiles == {BracketFile(Run(brackets, 1)) : brackets \in BracketRuns}

\* files with characters and brackets the lexer rejects
OtherFiles ==
    {
      \* x = 1 @\n
      <<"x", " ", "=", " ", "1", " ", "@", "\n">>,
      \* 07\n
      <<"0", "7", "\n">>,
      \* a / b\n
      <<"a", " ", "/", " ", "b", "\n">>,
      \* x !\n
      <<"x", " ", "!", "\n">>,
      \* \tif x:\n\t\tbreak\n
      <<"\t", "i", "f", " ", "x", ":", "\n", "\t", "\t", "b", "r", "e", "a", "k", "\n">>,
      \* x = [1)\n
      <<"x", " ", "=", " ", "[", "1", ")", "\n">>,
      \* print((1)\n
      <<"p", "r", "i", "n", "t", "(", "(", "1", ")", "\n">>,
      \* x = (1))\n
      <<"x", " ", "=", " ", "(", "1", ")", ")", "\n">>,
      \* x = L[0]]\n
      <<"x", " ", "=", " ", "L", "[", "0", "]", "]", "\n">>,
      \* if x:\n  y = (1\n
      <<"i", "f", " ", "x", ":", "\n", " ", " ", "y", " ", "=", " ", "(", "1", "\n">>
    }

\* files with the end of a line between an opening bracket and its closing bracket
ContinuationFiles ==
    {
      \* x = (1 +\n    2)\n
      <<"x", " ", "=", " ", "(", "1", " ", "+", "\n", " ", " ", " ", " ", "2", ")", "\n">>,
      \* y = L[\n  0]\n
      <<"y", " ", "=", " ", "L", "[", "\n", " ", " ", "0", "]", "\n">>,
      \* print(\n1)\n
      <<"p", "r", "i", "n", "t", "(", "\n", "1", ")", "\n">>,
      \* if x:\n    y = (1 +\n2)\n
      <<"i", "f", " ", "x", ":", "\n", " ", " ", " ", " ", "y", " ", "=", " ", "(", "1",
        " ", "+", "\n", "2", ")", "\n">>,
      \* if x:\n    y = (1 +\n    2)\n
      <<"i", "f", " ", "x", ":", "\n", " ", " ", " ", " ", "y", " ", "=", " ", "(", "1",
        " ", "+", "\n", " ", " ", " ", " ", "2", ")", "\n">>,
      \* z = (\n  (\n    1))\n
      <<"z", " ", "=", " ", "(", "\n", " ", " ", "(", "\n", " ", " ", " ", " ", "1", ")",
        ")", "\n">>,
      \* x = (1 +\n\t2)\n
      <<"x", " ", "=", " ", "(", "1", " ", "+", "\n", "\t", "2", ")", "\n">>
    }

Files ==
    IndentFiles \cup PositionFiles \cup BlankFiles \cup BracketFiles \cup OtherFiles
    \cup ContinuationFiles

\* Files of whole programs, for the run of main() from the file to the exit.

\* a program with every kind of statement
\*     L = list()
\*     L.append(1)
\*     i = 0
\*     while i < 3:
\*         i = i + 1
\*         if i == 1:
\*             continue
\*         elif i == 2:
\*             print(i)
\*         else:
\*             break
\*         continue
\*     while True:
\*         break
\*     if False:
\*         print(0)
\*     print(L[0])
ControlFlowFile ==
    <<"L", " ", "=", " ", "l", "i", "s", "t", "(", ")", "\n", "L", ".", "a", "p", "p", "e",
      "n", "d", "(", "1", ")", "\n", "i", " ", "=", " ", "0", "\n", "w", "h", "i", "l", "e",
      " ", "i", " ", "<", " ", "3", ":", "\n", " ", " ", " ", " ", "i", " ", "=", " ", "i",
      " ", "+", " ", "1", "\n", " ", " ", " ", " ", "i", "f", " ", "i", " ", "=", "=", " ",
      "1", ":", "\n", " ", " ", " ", " ", " ", " ", " ", " ", "c", "o", "n", "t", "i", "n",
      "u", "e", "\n", " ", " ", " ", " ", "e", "l", "i", "f", " ", "i", " ", "=", "=", " ",
      "2", ":", "\n", " ", " ", " ", " ", " ", " ", " ", " ", "p", "r", "i", "n", "t", "(",
      "i", ")", "\n", " ", " ", " ", " ", "e", "l", "s", "e", ":", "\n", " ", " ", " ", " ",
      " ", " ", " ", " ", "b", "r", "e", "a", "k", "\n", " ", " ", " ", " ", "c", "o", "n",
      "t", "i", "n", "u", "e", "\n", "w", "h", "i", "l", "e", " ", "T", "r", "u", "e", ":",
      "\n", " ", " ", " ", " ", "b", "r", "e", "a", "k", "\n", "i", "f", " ", "F", "a", "l",
      "s", "e", ":", "\n", " ", " ", " ", " ", "p", "r", "i", "n", "t", "(", "0", ")", "\n",
      "p", "r", "i", "n", "t", "(", "L", "[", "0", "]", ")", "\n">>

\* print statements, then an error of the lexer, of the parser or of the visitor
StageFiles ==
    {
      \* print(1)\nx = 1 @\n
      <<"p", "r", "i", "n", "t", "(", "1", ")", "\n", "x", " ", "=", " ", "1", " ", "@",
        "\n">>,
      \* print(1)\nprint(2)\nx = 07\n
      <<"p", "r", "i", "n", "t", "(", "1", ")", "\n", "p", "r", "i", "n", "t", "(", "2",
        ")", "\n", "x", " ", "=", " ", "0", "7", "\n">>,
      \* print(1)\nif True:\n        x = 1\n    x = 2\n
      <<"p", "r", "i", "n", "t", "(", "1", ")", "\n", "i", "f", " ", "T", "r", "u", "e",
        ":", "\n", " ", " ", " ", " ", " ", " ", " ", " ", "x", " ", "=", " ", "1", "\n",
        " ", " ", " ", " ", "x", " ", "=", " ", "2", "\n">>,
      \* print(1)\nif True:\nprint(2)\n
      <<"p", "r", "i", "n", "t", "(", "1", ")", "\n", "i", "f", " ", "T", "r", "u", "e",
        ":", "\n", "p", "r", "i", "n", "t", "(", "2", ")", "\n">>,
      \* print(1)\nx = = 2\n
      <<"p", "r", "i", "n", "t", "(", "1", ")", "\n", "x", " ", "=", " ", "=", " ", "2",
        "\n">>,
      \* print(1)\nprint(2\n
      <<"p", "r", "i", "n", "t", "(", "1", ")", "\n", "p", "r", "i", "n", "t", "(", "2",
        "\n">>,
      \* print(1)\nprint(2))\n
      <<"p", "r", "i", "n", "t", "(", "1", ")", "\n", "p", "r", "i", "n", "t", "(", "2",
        ")", ")", "\n">>,
      \* print(1)\nprint(y)\n
      <<"p", "r", "i", "n", "t", "(", "1", ")", "\n", "p", "r", "i", "n", "t", "(", "y",
        ")", "\n">>,
      \* print(1)\nprint(2)\nprint(1 // 0)\nprint(3)\n
      <<"p", "r", "i", "n", "t", "(", "1", ")", "\n", "p", "r", "i", "n", "t", "(", "2",
        ")", "\n", "p", "r", "i", "n", "t", "(", "1", " ", "/", "/", " ", "0", ")", "\n",
        "p", "r", "i", "n", "t", "(", "3", ")", "\n">>,
      \* x = 1\nprint(x)\nx = x + True\nx = 5\nprint(x)\n
      <<"x", " ", "=", " ", "1", "\n", "p", "r", "i", "n", "t", "(", "x", ")", "\n", "x",
        " ", "=", " ", "x", " ", "+", " ", "T", "r", "u", "e", "\n", "x", " ", "=", " ",
        "5", "\n", "p", "r", "i", "n", "t", "(", "x", ")", "\n">>,
      \* L = list()\nL.append(1)\nprint(L[0])\nprint(L[3])\nL.append(2)\n
      <<"L", " ", "=", " ", "l", "i", "s", "t", "(", ")", "\n", "L", ".", "a", "p", "p",
        "e", "n", "d", "(", "1", ")", "\n", "p", "r", "i", "n", "t", "(", "L", "[", "0",
        "]", ")", "\n", "p", "r", "i", "n", "t", "(", "L", "[", "3", "]", ")", "\n", "L",
        ".", "a", "p", "p", "e", "n", "d", "(", "2", ")", "\n">>,
      \* print(1)\nif 1:\n    print(2)\nprint(3)\n
      <<"p", "r", "i", "n", "t", "(", "1", ")", "\n", "i", "f", " ", "1", ":", "\n", " ",
        " ", " ", " ", "p", "r", "i", "n", "t", "(", "2", ")", "\n", "p", "r", "i", "n",
        "t", "(", "3", ")", "\n">>,
      \* print(1)\nprint(2)\n
      <<"p", "r", "i", "n", "t", "(", "1", ")", "\n", "p", "r", "i", "n", "t", "(", "2",
        ")", "\n">>
    }

\* the lines before the last line of a program, with the blanks that lead the last line
BlockHeads ==
    {
      \* if True:\n    
      <<"i", "f", " ", "T", "r", "u", "e", ":", "\n", " ", " ", " ", " ">>,
      \* while False:\n    
      <<"w", "h", "i", "l", "e", " ", "F", "a", "l", "s", "e", ":", "\n", " ", " ", " ", " ">>,
      \* x = 0\nif x == 0:\n    print(x)\nelse:\n    
      <<"x", " ", "=", " ", "0", "\n", "i", "f", " ", "x", " ", "=", "=", " ", "0", ":",
        "\n", " ", " ", " ", " ", "p", "r", "i", "n", "t", "(", "x", ")", "\n", "e", "l",
        "s", "e", ":", "\n", " ", " ", " ", " ">>,
      \* if True:\n    if True:\n        
      <<"i", "f", " ", "T", "r", "u", "e", ":", "\n", " ", " ", " ", " ", "i", "f", " ",
        "T", "r", "u", "e", ":", "\n", " ", " ", " ", " ", " ", " ", " ", " ">>,
      \* 
      <<>>
    }

\* the last line of a program, a simple statement
LastLines ==
    {
      \* x = 1
      <<"x", " ", "=", " ", "1">>,
      \* print(1)
      <<"p", "r", "i", "n", "t", "(", "1", ")">>,
      \* L = list()
      <<"L", " ", "=", " ", "l", "i", "s", "t", "(", ")">>
    }

\* the programs whose last line has no newline character after it, and the
\* same programs with the newline
UnterminatedFiles == {head \o last : head \in BlockHeads, last \in LastLines}

TerminatedFiles == {f \o <<"\n">> : f \in UnterminatedFiles}

\* integer literals at and above the largest int
LiteralFiles ==
    {
      \* x = 2147483647\nprint(x)\n
      <<"x", " ", "=", " ", "2", "1", "4", "7", "4", "8", "3", "6", "4", "7", "\n", "p",
        "r", "i", "n", "t", "(", "x", ")", "\n">>,
      \* x = 2147483648\nprint(x)\n
      <<"x", " ", "=", " ", "2", "1", "4", "7", "4", "8", "3", "6", "4", "8", "\n", "p",
        "r", "i", "n", "t", "(", "x", ")", "\n">>,
      \* print(1)\nprint(99999999999)\n
      <<"p", "r", "i", "n", "t", "(", "1", ")", "\n", "p", "r", "i", "n", "t", "(", "9",
        "9", "9", "9", "9", "9", "9", "9", "9", "9", "9", ")", "\n">>,
      \* print(4294967297)\n
      <<"p", "r", "i", "n", "t", "(", "4", "2", "9", "4", "9", "6", "7", "2", "9", "7", ")",
        "\n">>
    }

\* files with a line indented deeper than the line before it, which is no block header
StrayIndentFiles ==
    {
      \* x = 1\n    y = 2\n
      <<"x", " ", "=", " ", "1", "\n", " ", " ", " ", " ", "y", " ", "=", " ", "2", "\n">>,
      \* print(1)\n  print(2)\nprint(3)\n
      <<"p", "r", "i", "n", "t", "(", "1", ")", "\n", " ", " ", "p", "r", "i", "n", "t",
        "(", "2", ")", "\n", "p", "r", "i", "n", "t", "(", "3", ")", "\n">>,
      \* if False:\n    print(1)\n        print(2)\n    print(3)\n
      <<"i", "f", " ", "F", "a", "l", "s", "e", ":", "\n", " ", " ", " ", " ", "p", "r",
        "i", "n", "t", "(", "1", ")", "\n", " ", " ", " ", " ", " ", " ", " ", " ", "p",
        "r", "i", "n", "t", "(", "2", ")", "\n", " ", " ", " ", " ", "p", "r", "i", "n",
        "t", "(", "3", ")", "\n">>,
      \* while False:\n    x = 1\n      y = 2\n
      <<"w", "h", "i", "l", "e", " ", "F", "a", "l", "s", "e", ":", "\n", " ", " ", " ",
        " ", "x", " ", "=", " ", "1", "\n", " ", " ", " ", " ", " ", " ", "y", " ", "=",
        " ", "2", "\n">>
    }

ProgramFiles ==
    {ControlFlowFile} \cup StageFiles \cup UnterminatedFiles \cup TerminatedFiles
    \cup LiteralFiles \cup StrayIndentFiles

RunFiles == Files \cup ProgramFiles

EmptyMap == [id \in {} |-> 0]

\* the members of a lexer as its constructor leaves them, and the locals of
\* tokenizeInputFile as they are declared
LexerConstructed ==
    /\ filePos = 0
    /\ line_ = 1
    /\ column_ = 0
    /\ indentStack_ = <<0>>
    /\ parStack_ = <<>>
    /\ res = <<>>
    /\ n_t = 0
    /\ indent = TRUE

\* the parser and the visitor before they run
VisitorConstructed ==
    /\ program = <<>>
    /\ frames = <<>>
    /\ intVariables_ = EmptyMap
    /\ boolVariables_ = EmptyMap
    /\ lists_ = EmptyMap
    /\ conditionMetStack_ = <<>>
    /\ loopStack_ = <<>>
    /\ output = <<>>
    /\ err = "NONE"
    /\ trace = <<>>

\* Spec starts where the lexer has handed over the token vector of a source;
\* the file and the lexer's own state play no part in it
Init ==
    /\ tokens \in Sources
    /\ stage = "parse"
    /\ VisitorConstructed
    /\ file = <<>>
    /\ LexerConstructed

Next ==
    \/ Parse
    \/ VisitAssignmentStatement
    \/ VisitListDeclarationStatement
    \/ VisitListAppendStatement
    \/ VisitPrintStatement
    \/ VisitBreakStatement
    \/ VisitContinueStatement
    \/ VisitIfStatement
    \/ VisitSimpleBlock
    \/ SkipSimpleBlock
    \/ VisitElifBlock
    \/ VisitElseBlock
    \/ SecondLoop
    \/ IfReturn
    \/ BlockReturn
    \/ VisitWhileStatement
    \/ WhileCondition
    \/ WhileBreak
    \/ WhileContinue
    \/ WhileBodyEnd
    \/ ProgramReturn

Spec == Init /\ [][Next]_vars

\* LexSpec starts with the file open and runs the lexer to its return
LexInit ==
    /\ file \in Files
    /\ LexerConstructed
    /\ stage = "lex"
    /\ tokens = <<>>
    /\ VisitorConstructed

LexNext ==
    \/ LexBlank
    \/ LexNewLine
    \/ LexWord
    \/ LexNumber
    \/ LexOperator
    \/ LexPunctuation
    \/ LexBracket
    \/ LexInvalid
    \/ LexEnd

LexSpec == LexInit /\ [][LexNext]_vars

\* the status the process ends with: main() returns EXIT_SUCCESS, error()
\* calls exit(EXIT_FAILURE), a run ended by a signal has the status of the
\* signal; -1 while the process runs
ExitStatus ==
    CASE stage = "done"    -> 0
      [] stage = "failed"  -> 1
      [] stage = "aborted" -> 134
      [] stage = "crashed" -> 139
      [] OTHER             -> -1

\* RunSpec is main() from the open file to the exit: the lexer, then the
\* parser, then the visitor
RunInit ==
    /\ file \in RunFiles
    /\ LexerConstructed
    /\ stage = "lex"
    /\ tokens = <<>>
    /\ VisitorConstructed

RunNext == LexNext \/ Next

RunSpec == RunInit /\ [][RunNext]_vars

-----------------------------------------------------------------------------
(* Properties.                                                              *)

Finished == stage \in {"done", "failed", "hung"}

\* C1: once a break statement is executed in a while loop, directly in the
\* body or nested in an if/elif/else block of the body, no later statement of
\* the body is executed and the loop exits; the counting loop with break at
\* i == 3 prints exactly 0, 1, 2.  Between the break (which clears the top
\* of loopStack_) and the exit of the loop only the loop condition may be
\* evaluated.
BreakExitsLoop ==
    /\ \A k \in 1..Len(trace) :
          (trace[k].loops # <<>> /\ ~trace[k].loops[Len(trace[k].loops)])
              => trace[k].ev = "WHILE_CONDITION"
    /\ (tokens = CountingLoop(10, 3) /\ Finished)
          => (stage = "done" /\ output = <<"0", "1", "2">>)

\* C2: after a continue statement executed in a while loop, directly in the
\* body or nested in an if block, no following statement of the body runs in
\* this iteration: the next thing the visitor does is evaluate the loop
\* condition, with loopStack_ as the continue found it.
ContinueSkipsRest ==
    \A k \in 1..(Len(trace) - 1) :
        trace[k].ev = "CONTINUE_STMT"
            => /\ trace[k + 1].ev = "WHILE_CONDITION"
               /\ trace[k + 1].loops = trace[k].loops

\* C3: print(True or E) prints True and print(False and E) prints False
\* whatever E is, also when E names an undefined variable or list: E is
\* neither evaluated nor inspected and no error is raised.
ShortCircuit ==
    \A E \in ShortCircuitOperands :
        /\ (tokens = OrSource(E) /\ Finished) => (stage = "done" /\ output = <<"True">>)
        /\ (tokens = AndSource(E) /\ Finished) => (stage = "done" /\ output = <<"False">>)

\* C4: t1 op1 t2 op2 t3 with op1, op2 in {+, -} parses without error and
\* evaluates to ((t1 op1 t2) op2 t3).
AdditiveChainsGroupLeft ==
    LET Apply(op, a, b) == IF op = "ADD" THEN a + b ELSE a - b IN
    \A t1 \in AdditiveTerms, t2 \in AdditiveTerms, t3 \in AdditiveTerms,
       op1 \in AdditiveOperators, op2 \in AdditiveOperators :
        (tokens = AdditiveChain(t1, op1, t2, op2, t3) /\ Finished)
            => /\ stage = "done"
               /\ output = <<ToString(Apply(op2, Apply(op1, t1, t2), t3))>>

\* C5: a op1 b op2 c with op1, op2 in {*, //} and no division by zero
\* evaluates to ((a op1 b) op2 c).
MultiplicativeChainsGroupLeft ==
    LET Apply(op, a, b) == IF op = "MUL" THEN a * b ELSE a \div b IN
    \A a \in MultiplicativeOperands, b \in MultiplicativeOperands,
       c \in MultiplicativeOperands,
       op1 \in MultiplicativeOperators, op2 \in MultiplicativeOperators :
        (tokens = MultiplicativeChain(a, op1, b, op2, c) /\ Finished)
            => /\ stage = "done"
               /\ output = <<ToString(Apply(op2, Apply(op1, a, b), c))>>

\* C6: e1 and e2 and e3 parses without error and evaluates to
\* e1 and (e2 and e3).
AndChainsParse ==
    \A e1 \in BOOLEAN, e2 \in BOOLEAN, e3 \in BOOLEAN :
        (tokens = AndChain(e1, e2, e3) /\ Finished)
            => /\ stage = "done"
               /\ output = <<IF e1 /\ (e2 /\ e3) THEN "True" ELSE "False">>

\* C7: an execution of an if/elif/else statement runs at most one branch
\* body, once: the then block when the if condition is True, otherwise the
\* block of the first elif whose condition is True, otherwise the else
\* block; no elif condition is evaluated after a branch has run, and each
\* elif condition is evaluated at most once.  The statement is the first of
\* the program; its conditions are constant, so eval gives, in any state,
\* the value they have when the statement runs.
OneBranchOnce ==
    (tokens \in IfSources /\ stage \in {"visit", "done", "failed"}) =>
    LET s == program[1]
        n == Len(s.blocks)
        IsElif(k) == s.blocks[k].blockType = "ELIF_BLOCK"
        Cond(k) == IF k = 1 THEN eval(s.expr) ELSE eval(s.blocks[k].condition)
        IsTrue(k)  == Cond(k).err = "NONE" /\ Cond(k).boolValue
        IsFalse(k) == Cond(k).err = "NONE" /\ ~Cond(k).boolValue
        Fires(k) == /\ \A j \in 1..(k - 1) : IsFalse(j)
                    /\ (k = 1 \/ IsElif(k)) => IsTrue(k)
        Body(k) == IF k = 1 THEN s.blocks[1].position ELSE s.blocks[k].block.position
        Runs(k) == {i \in 1..Len(trace) :
                        trace[i].ev = "SIMPLE_BLOCK" /\ trace[i].position = Body(k)}
        Evals(k) == {i \in 1..Len(trace) :
                        trace[i].ev = "ELIF_CONDITION"
                        /\ trace[i].position = s.blocks[k].position}
    IN  /\ Cardinality(UNION {Runs(k) : k \in 1..n}) <= 1
        /\ \A k \in 1..n : Runs(k) # {} => Fires(k)
        /\ stage = "done" => \A k \in 1..n : Fires(k) => Cardinality(Runs(k)) = 1
        /\ \A k \in 2..n : IsElif(k) =>
              /\ Cardinality(Evals(k)) <= 1
              /\ \A i \in Evals(k) : \A j \in 1..n : \A r \in Runs(j) : i < r

\* the second elif is the first true condition: its block, and no other, ran
OneBranchOnceWitness ==
    /\ tokens = IfSource("F", <<"F", "T">>, TRUE)
    /\ stage = "done"
    /\ output = <<"3", "0">>
    /\ Cardinality({i \in 1..Len(trace) : trace[i].ev = "SIMPLE_BLOCK"}) = 1
    /\ Cardinality({i \in 1..Len(trace) : trace[i].ev = "ELIF_CONDITION"}) = 2

\* C8: an arithmetic or relational operator or unary minus applied to an
\* operand of type Bool, not/and/or applied to an operand of type Int, and
\* == or != applied to operands of different types raise TYPE_ERROR and
\* produce no value: nothing is printed and nothing is assigned.
TypeDiscipline ==
    (tokens \in IllTypedSources) =>
        /\ output = <<>>
        /\ ~isAlreadyDefined("y")
        /\ stage # "done"
        /\ Finished => (stage = "failed" /\ err = "TYPE_ERROR")

\* print(1 + True) has stopped with TYPE_ERROR
TypeDisciplineWitness ==
    /\ tokens = PrintSource(Binary(N(1), "ADD", B(TRUE)))
    /\ stage = "failed"
    /\ err = "TYPE_ERROR"
    /\ Len(trace) = 8

\* C9: a // e with a an integer and e evaluating to 0 raises ZERO_DIVISION
\* and yields no value: nothing is printed and nothing is assigned.
DivisionByZero ==
    (tokens \in ZeroDivisionSources) =>
        /\ output = <<>>
        /\ ~isAlreadyDefined("y")
        /\ stage # "done"
        /\ Finished => (stage = "failed" /\ err = "ZERO_DIVISION")

\* y = -7 // z with z = 0 has stopped with ZERO_DIVISION
DivisionByZeroWitness ==
    /\ tokens = AssignSource(Division(Neg(N(7)), V("z")))
    /\ stage = "failed"
    /\ err = "ZERO_DIVISION"
    /\ intVariables_["z"] = 0

\* C10: in every reachable state each identifier is bound in at most one of
\* the three maps; assigning a scalar to a name bound as a list removes the
\* list binding and creates the scalar binding, and assigning a value of the
\* other scalar type moves the name between the int and the bool map: the
\* maps are disjoint before and after every step, and an assignment to a name
\* that completes leaves the name bound to the value in the scalar map of the
\* value's type and in no other map.
OneSlotPerName ==
    [][/\ DOMAIN intVariables_ \cap DOMAIN boolVariables_ = {}
       /\ DOMAIN intVariables_ \cap DOMAIN lists_ = {}
       /\ DOMAIN boolVariables_ \cap DOMAIN lists_ = {}
       /\ DOMAIN intVariables_' \cap DOMAIN boolVariables_' = {}
       /\ DOMAIN intVariables_' \cap DOMAIN lists_' = {}
       /\ DOMAIN boolVariables_' \cap DOMAIN lists_' = {}
       /\ (Visiting("ASSIGNMENT_STMT") /\ Current.loc.k = "ID" /\ stage' = "visit") =>
             /\ Current.loc.id \notin DOMAIN lists_'
             /\ eval(Current.expr).type = "TYPE_INT" =>
                   /\ Current.loc.id \in DOMAIN intVariables_'
                   /\ intVariables_'[Current.loc.id] = eval(Current.expr).intValue
                   /\ Current.loc.id \notin DOMAIN boolVariables_'
             /\ eval(Current.expr).type = "TYPE_BOOL" =>
                   /\ Current.loc.id \in DOMAIN boolVariables_'
                   /\ boolVariables_'[Current.loc.id] = eval(Current.expr).boolValue
                   /\ Current.loc.id \notin DOMAIN intVariables_'
      ]_vars

\* x was a list with one element and is now a Bool scalar, and only that
OneSlotPerNameWitness ==
    /\ tokens = Source(ListLine("x") \o AppendLine("x", N(2)) \o AssignLine(V("x"), B(TRUE)))
    /\ stage = "done"
    /\ "x" \in DOMAIN boolVariables_
    /\ "x" \notin DOMAIN lists_

\* C11: after x = E has run with E evaluating to v, whatever x was bound
\* to before (nothing, a scalar of either type, a list), a read of x yields v
\* with the type of v; and a step that is not an assignment to x leaves what
\* a read of x yields as it was.
WriteThenRead ==
    [][LET Read(x) == eval([k |-> "ID", id |-> x, position |-> 0])
           Assigns(x) == /\ Visiting("ASSIGNMENT_STMT")
                         /\ Current.loc.k = "ID"
                         /\ Current.loc.id = x
       IN  /\ (Visiting("ASSIGNMENT_STMT") /\ Current.loc.k = "ID" /\ stage' = "visit") =>
                 \A x \in {Current.loc.id} : \A v \in {eval(Current.expr)} :
                     v.err = "NONE" /\ Read(x)' = v
           /\ \A x \in DOMAIN intVariables_ \cup DOMAIN boolVariables_ :
                 ~Assigns(x) => Read(x)' = Read(x)
      ]_vars

\* x was a list, then x = True ran, and y = x read the Bool True
WriteThenReadWitness ==
    /\ tokens = Source(ListLine("x") \o AssignLine(V("x"), B(TRUE)) \o AssignLine(V("y"), V("x")))
    /\ stage = "done"
    /\ boolVariables_ = [id \in {"x", "y"} |-> TRUE]
    /\ intVariables_ = EmptyMap
    /\ lists_ = EmptyMap

\* C12: an append that completes makes the list one longer, puts the value
\* of its expression at the new last index and leaves what a read of every
\* earlier index yields as it was; so after L = list() and the appends of
\* v0..v(n-1), of Int and Bool values in any mix, L has length n and
\* print(L[i]) prints v_i for every i.
AppendsInOrder ==
    [][LET ReadElement(id, i) ==
               eval([k |-> "LIST_ELEM", id |-> id, position |-> 0,
                     index |-> [k |-> "NUMBER", value |-> i, position |-> 0]])
       IN  /\ (Visiting("LIST_APP_STMT") /\ stage' = "visit") =>
                 \A id \in {Current.id} : \A v \in {eval(Current.expr)} :
                 \A n \in {Len(lists_[id])} :
                     /\ v.err = "NONE"
                     /\ Len(lists_'[id]) = n + 1
                     /\ ReadElement(id, n)' = v
                     /\ \A i \in 0..(n - 1) : ReadElement(id, i)' = ReadElement(id, i)
           /\ (tokens \in AppendSources /\ stage' = "done") =>
                 \A vs \in AppendSequences :
                     tokens = AppendSource(vs) =>
                         /\ Len(lists_'["L"]) = Len(vs)
                         /\ output' = vs
      ]_vars

\* 5, True and False were appended and read back in that order
AppendsInOrderWitness ==
    /\ tokens = AppendSource(<<"5", "True", "False">>)
    /\ stage = "done"
    /\ lists_["L"] = <<IntElement(5), BoolElement(TRUE), BoolElement(FALSE)>>
    /\ output = <<"5", "True", "False">>

\* C13: L[e] = E on a defined list L, with e evaluating to an Int i, changes
\* neither the scalar bindings, nor the set of lists, nor any other list, nor
\* the length of L; with 0 <= i < len(L) the statement completes and L
\* differs from what it was exactly in element i, which is the value of E;
\* with i < 0 or i >= len(L) an error is raised and L is what it was.
IndexedAssignKeepsFrame ==
    [][(/\ Visiting("ASSIGNMENT_STMT")
        /\ Current.loc.k = "LIST_ELEM"
        /\ isListDefined(Current.loc.id)
        /\ eval(Current.expr).err = "NONE"
        /\ eval(Current.loc.index).err = "NONE"
        /\ eval(Current.loc.index).type = "TYPE_INT") =>
            \A id \in {Current.loc.id} : \A v \in {eval(Current.expr)} :
            \A i \in {eval(Current.loc.index).intValue} :
                /\ intVariables_' = intVariables_
                /\ boolVariables_' = boolVariables_
                /\ DOMAIN lists_' = DOMAIN lists_
                /\ \A other \in DOMAIN lists_ \ {id} : lists_'[other] = lists_[other]
                /\ Len(lists_'[id]) = Len(lists_[id])
                /\ IF 0 <= i /\ i < Len(lists_[id])
                   THEN /\ stage' = "visit"
                        /\ lists_'[id][i + 1] = [type |-> v.type, intValue |-> v.intValue,
                                                 boolValue |-> v.boolValue]
                        /\ \A j \in 1..Len(lists_[id]) :
                              j # i + 1 => lists_'[id][j] = lists_[id][j]
                   ELSE /\ stage' = "failed"
                        /\ err' # "NONE"
                        /\ lists_'[id] = lists_[id]
      ]_vars

\* L[n + 1] = 9 with n = 1 has replaced the last element of [2, True, 0]
IndexedAssignKeepsFrameWitness ==
    /\ tokens = IndexedAssignSource(Arit(V("n"), "ADD", N(1)), N(9))
    /\ stage = "done"
    /\ lists_["L"] = <<IntElement(2), BoolElement(TRUE), IntElement(9)>>
    /\ output = <<"2">>

\* C14: a read L[e] of a defined list with e evaluating to an Int outside
\* [0, len) raises SEMANTIC_ERROR in every expression context: as the whole
\* expression, and as an operand of a unary or binary operator.
OutOfRangeReadIsSemanticError ==
    (tokens \in OutOfRangeReadSources /\ Finished) =>
        (stage = "failed" /\ err = "SEMANTIC_ERROR")

\* C15: a break or continue statement executed while loopStack_ is empty,
\* at top level or in a block of an if statement outside any loop, raises
\* SEMANTIC_ERROR and nothing runs after it; a break or continue in a branch
\* that is not taken raises nothing and the program runs to its end.
OutsideLoopRejected ==
    /\ \A k \in 1..Len(trace) :
          (trace[k].ev \in {"BREAK_STMT", "CONTINUE_STMT"} /\ trace[k].loops = <<>>)
              => (k = Len(trace) /\ stage = "failed" /\ err = "SEMANTIC_ERROR")
    /\ (tokens \in ExecutedOutsideLoopSources /\ Finished)
          => /\ stage = "failed"
             /\ err = "SEMANTIC_ERROR"
             /\ trace[Len(trace)].ev \in {"BREAK_STMT", "CONTINUE_STMT"}
             /\ "2" \notin {output[i] : i \in 1..Len(output)}
    /\ (tokens \in SkippedOutsideLoopSources /\ Finished)
          => /\ stage = "done"
             /\ output[Len(output)] = "2"
             /\ \A k \in 1..Len(trace) : trace[k].ev \notin {"BREAK_STMT", "CONTINUE_STMT"}

\* a continue in the else block of an if statement at top level has stopped
\* the program
OutsideLoopRejectedWitness ==
    /\ tokens = OutsideLoopSource(IfLines(B(FALSE), PrintLine(N(0))) \o ElseLines(ContinueLine))
    /\ stage = "failed"
    /\ err = "SEMANTIC_ERROR"
    /\ output = <<"1">>
    /\ loopStack_ = <<>>
    /\ trace[Len(trace)].ev = "CONTINUE_STMT"

\* C16: an if, an elif and a while with a condition that evaluates to an
\* Int all raise SEMANTIC_ERROR, and no block of the statement is executed.
IntConditionRejected ==
    (tokens \in IntConditionSources /\ Finished) =>
        /\ stage = "failed"
        /\ err = "SEMANTIC_ERROR"
        /\ output = <<>>

Kinds(toks) ==
    [i \in 1..Len(toks) |->
        IF toks[i].type = "INDENTATION_TOKEN"
        THEN (IF toks[i].bool THEN "INDENT" ELSE "DEDENT")
        ELSE toks[i].type]

RECURSIVE WidthBefore(_)
\* the width of the run of blanks that ends at character k of the file, a
\* tab counting four
WidthBefore(k) ==
    IF k = 0 THEN 0
    ELSE IF file[k] \notin Blanks THEN 0
    ELSE (IF file[k] = "\t" THEN 4 ELSE 1) + WidthBefore(k - 1)

RECURSIVE BlanksBefore(_)
\* the number of characters of that run
BlanksBefore(k) ==
    IF k = 0 THEN 0
    ELSE IF file[k] \notin Blanks THEN 0
    ELSE 1 + BlanksBefore(k - 1)

\* character k is the first character of its line that is not a blank, and
\* is not the end of the line
FirstOfLine(k) ==
    /\ file[k] \notin Blanks \cup LineEnds
    /\ \A j \in {k - 1 - BlanksBefore(k - 1)} : j = 0 \/ file[j] \in LineEnds

\* C17: when the lexer reads the first character of a line whose leading
\* width is w: with w below the top of the indent stack it pops the entries
\* above w, exactly those, and appends one dedent token for each, and then
\* raises INDENTATION_ERROR if w is not the new top and goes on otherwise;
\* with w equal to the top it appends no indentation token; with w above the
\* top it pushes w and appends one indent token.
OutdentRule ==
    [][(stage = "lex" /\ filePos < Len(file) /\ FirstOfLine(filePos + 1)) =>
       \A w \in {WidthBefore(filePos)} : \A top \in {Back(indentStack_)} :
       \A old \in {Len(res)} : \A depth \in {Len(indentStack_)} :
       LET Added(kind) == {i \in (old + 1)..Len(res') : Kinds(res')[i] = kind}
           popped == depth - Len(indentStack_')
       IN  /\ w < top =>
                 /\ popped >= 1
                 /\ indentStack_' = SubSeq(indentStack_, 1, depth - popped)
                 /\ \A i \in (depth - popped + 1)..depth : w < indentStack_[i]
                 /\ w >= Back(indentStack_')
                 /\ Added("DEDENT") = (old + 1)..(old + popped)
                 /\ Added("INDENT") = {}
                 /\ IF w # Back(indentStack_')
                    THEN stage' = "failed" /\ err' = "INDENTATION_ERROR"
                    ELSE err' # "INDENTATION_ERROR"
           /\ w = top =>
                 /\ indentStack_' = indentStack_
                 /\ Added("DEDENT") = {}
                 /\ Added("INDENT") = {}
                 /\ err' # "INDENTATION_ERROR"
           /\ w > top =>
                 /\ indentStack_' = Append(indentStack_, w)
                 /\ Added("INDENT") = {old + 1}
                 /\ Added("DEDENT") = {}
                 /\ err' # "INDENTATION_ERROR"
      ]_vars

\* lines of width 0, 2, 4 and 0: the last line closed two levels at once
OutdentRuleWitness ==
    /\ file = IndentedLines(<<Spaces(0), Spaces(2), Spaces(4), Spaces(0)>>, 1)
    /\ stage = "parse"
    /\ indentStack_ = <<0>>
    /\ Kinds(tokens) = <<"ID_TOKEN", "NEWLINE_TOKEN", "INDENT", "ID_TOKEN", "NEWLINE_TOKEN",
                         "INDENT", "ID_TOKEN", "NEWLINE_TOKEN", "DEDENT", "DEDENT",
                         "ID_TOKEN", "NEWLINE_TOKEN", "EOF_TOKEN">>

\* the line (from 1) and the column (from 0) of character k of the file
LineOf(k) == 1 + Cardinality({j \in 1..(k - 1) : file[j] = "\n"})
ColumnOf(k) ==
    LET starts == {0} \cup {j \in 1..(k - 1) : file[j] = "\n"}
    IN  k - 1 - (CHOOSE j \in starts : \A i \in starts : i <= j)

\* C18: the line and column stored in a token are the position of the first
\* character of its lexeme, lines counted from 1 and columns from 0, for
\* tokens of one character, tokens of several characters and newline
\* tokens.  The lexeme of the token a step appends starts at the character
\* the step reads first.
TokenPositions ==
    [][(/\ stage = "lex"
        /\ filePos < Len(file)
        /\ Len(res') > Len(res)
        /\ res'[Len(res')].type \notin {"INDENTATION_TOKEN", "EOF_TOKEN"}) =>
            /\ res'[Len(res')].line = LineOf(filePos + 1)
            /\ res'[Len(res')].column = ColumnOf(filePos + 1)
      ]_vars

\* C19: spaces and tabs after the first token of a line produce no token and
\* no error: x = 1 written with any mix of spaces and tabs after its tokens
\* gives the tokens of x = 1.
BlanksSkipped ==
    (file \in BlankFiles /\ stage # "lex") =>
        /\ stage = "parse"
        /\ Kinds(tokens) = <<"ID_TOKEN", "ASSIGNMENT_TOKEN", "NUMBER_TOKEN", "NEWLINE_TOKEN",
                             "EOF_TOKEN">>

RECURSIVE Nesting(_, _, _)
\* the brackets of f from character k on, read with the brackets of `open`
\* opened and not closed: a closer that does not close the bracket opened
\* last, else a bracket left open at the end, else properly nested
Nesting(f, k, open) ==
    IF k > Len(f) THEN (IF open = <<>> THEN "NESTED" ELSE "UNCLOSED")
    ELSE IF f[k] \in {"(", "["} THEN Nesting(f, k + 1, Append(open, f[k]))
    ELSE IF f[k] \in {")", "]"}
    THEN IF open # <<>> /\ open[Len(open)] = (IF f[k] = ")" THEN "(" ELSE "[")
         THEN Nesting(f, k + 1, SubSeq(open, 1, Len(open) - 1))
         ELSE "MISMATCH"
    ELSE Nesting(f, k + 1, open)

\* C20: a ) or ] that does not close the bracket opened last (none open, or
\* one of the other kind) raises LEXICAL_ERROR; a bracket still open at the
\* end of the file raises LEXICAL_ERROR before any dedent or end-of-file
\* token; properly nested brackets raise no error.
BracketBalancing ==
    (file \in BracketFiles /\ stage # "lex") =>
        IF Nesting(file, 1, <<>>) = "NESTED" THEN stage = "parse"
        ELSE /\ stage = "failed"
             /\ err = "LEXICAL_ERROR"
             /\ Nesting(file, 1, <<>>) = "UNCLOSED" =>
                    \A i \in 1..Len(res) : Kinds(res)[i] \notin {"DEDENT", "EOF_TOKEN"}

\* the same with the ends of LexBracket that leave no diagnostic set aside
BracketBalancingDiagnosed ==
    (file \in BracketFiles /\ stage \notin {"lex", "crashed"}) =>
        IF Nesting(file, 1, <<>>) = "NESTED" THEN stage = "parse"
        ELSE /\ stage = "failed"
             /\ err = "LEXICAL_ERROR"
             /\ Nesting(file, 1, <<>>) = "UNCLOSED" =>
                    \A i \in 1..Len(res) : Kinds(res)[i] \notin {"DEDENT", "EOF_TOKEN"}

\* C21: a token that starts no statement, met where a statement must start
\* (at the top level or in a block), raises SYNTAX_ERROR; only newline tokens
\* are passed over between statements.
StrayTokenRejected ==
    (tokens \in StraySources /\ stage # "parse") =>
        stage = "failed" /\ err = "SYNTAX_ERROR"

\* C22: a well-formed program parses whether or not its last line ends with
\* a newline character: the parser accepts the tokens of a program whose
\* last line, a simple statement at the top level or in an indented block,
\* has no newline after it.
NewlineFreeEndParses ==
    (file \in UnterminatedFiles /\ stage \notin {"lex", "parse"}) =>
        stage \in {"visit", "done"} /\ program # <<>>

FirstErrorEnds ==
    [][/\ err # "NONE" =>
              UNCHANGED <<trace, output, intVariables_, boolVariables_, lists_, frames>>
       /\ err' # "NONE" => ExitStatus' > 0
       /\ ExitStatus' = 0 <=> (stage' = "done" /\ err' = "NONE" /\ frames' = <<>>)
      ]_vars

\* x = 1, print(x), x = x + True, x = 5, print(x): the run ends at the third
\* line with x still 1 and one line written
FirstErrorEndsWitness ==
    /\ file \in StageFiles
    /\ err \notin {"NONE", "LEXICAL_ERROR", "INDENTATION_ERROR", "SYNTAX_ERROR"}
    /\ ExitStatus = 1
    /\ output = <<"1">>
    /\ "x" \in DOMAIN intVariables_
    /\ intVariables_["x"] = 1

\* the twelve categories of error.h
ErrorCategories ==
    {"MISSING_FILE_ERROR", "FILE_OPEN_ERROR", "INDENTATION_ERROR", "LEXICAL_ERROR",
     "RESERVED_KEYWORD_ERROR", "SYNTAX_ERROR", "INTERNAL_ERROR", "SEMANTIC_ERROR",
     "INDEX_ERROR", "EVALUATION_ERROR", "ZERO_DIVISION", "TYPE_ERROR"}

\* C25: every run that does not complete normally ends through error() with
\* one of the twelve categories, also when the source holds an integer
\* literal above the largest int: no run ends any other way.
CategorizedEnd ==
    file \in LiteralFiles =>
        /\ stage \in {"lex", "parse", "visit", "done", "failed"}
        /\ stage = "failed" => err \in ErrorCategories
        /\ stage # "failed" => err = "NONE"

\* the number of tokens of the kind among the first k tokens of the vector
Count(toks, kind, k) == Cardinality({i \in 1..k : Kinds(toks)[i] = kind})

\* C26: all through the tokenization the indent stack has 0 at the bottom
\* and grows strictly, and its size less one is the number of indent tokens
\* less the number of dedent tokens appended so far; no prefix of the vector
\* has more dedents than indents.  A file tokenized without error has as many
\* dedent as indent tokens, all of them before the one end-of-file token,
\* which is last.
IndentStackInvariant ==
    /\ indentStack_[1] = 0
    /\ \A i \in 1..(Len(indentStack_) - 1) : indentStack_[i] < indentStack_[i + 1]
    /\ Len(indentStack_) - 1
           = Count(res, "INDENT", Len(res)) - Count(res, "DEDENT", Len(res))
    /\ \A k \in 0..Len(res) : Count(res, "DEDENT", k) <= Count(res, "INDENT", k)
    /\ stage = "parse" =>
           /\ tokens = res
           /\ Count(tokens, "INDENT", Len(tokens)) = Count(tokens, "DEDENT", Len(tokens))
           /\ {i \in 1..Len(tokens) : Kinds(tokens)[i] = "EOF_TOKEN"} = {Len(tokens)}

\* a file that ends two levels deep: both are closed before the end-of-file
\* token
IndentStackInvariantWitness ==
    /\ stage = "parse"
    /\ Len(tokens) > 3
    /\ Count(tokens, "INDENT", Len(tokens)) = 2
    /\ SubSeq(Kinds(tokens), Len(tokens) - 2, Len(tokens)) = <<"DEDENT", "DEDENT", "EOF_TOKEN">>

\* C27: while parStack_ is not empty, a bracket being open, no step of the
\* lexer appends an indent or a dedent token or changes the indent stack,
\* whatever the width of the blanks that lead the line.
NoIndentationInBrackets ==
    [][(stage = "lex" /\ parStack_ # <<>>) =>
           /\ indentStack_' = indentStack_
           /\ \A i \in (Len(res) + 1)..Len(res') : Kinds(res')[i] \notin {"INDENT", "DEDENT"}
      ]_vars

RECURSIVE BlocksOfStatements(_, _)
RECURSIVE BlocksOfBlocks(_, _)
\* the number of blocks parseBlock built in the statements from the k-th on
BlocksOfStatements(stmts, k) ==
    IF k > Len(stmts) THEN 0
    ELSE (IF stmts[k].type \in {"IF_STMT", "WHILE_STMT"}
          THEN BlocksOfBlocks(stmts[k].blocks, 1) ELSE 0)
         + BlocksOfStatements(stmts, k + 1)

BlocksOfBlocks(blocks, k) ==
    IF k > Len(blocks) THEN 0
    ELSE LET simple == IF blocks[k].blockType = "SIMPLE_BLOCK" THEN blocks[k]
                       ELSE blocks[k].block
         IN  1 + BlocksOfStatements(simple.stmts, 1) + BlocksOfBlocks(blocks, k + 1)

\* C28: the parser takes every indent token as the opening of a block and
\* every dedent token as the closing of one, and accepts no indent that does
\* not follow a block header: when parseProgram returns, the indent tokens
\* it went over are as many as the blocks it built, and so are the dedent
\* tokens.
IndentsOpenBlocks ==
    stage \in {"visit", "done"} =>
        /\ Count(tokens, "INDENT", Len(tokens)) = BlocksOfStatements(program, 1)
        /\ Count(tokens, "DEDENT", Len(tokens)) = BlocksOfStatements(program, 1)

\* the number of calls of the kind on the call stack of the visitor
Calls(kind) == Cardinality({i \in 1..Len(frames) : frames[i].kind = kind})

\* the entries of the stack that a step changed in place
Changed(before, after) ==
    {i \in 1..Len(before) : i <= Len(after) /\ after[i] # before[i]}

\* C29: during the evaluation loopStack_ holds one entry for every while
\* statement being executed and conditionMetStack_ one entry for every if
\* statement being executed, and both are empty when the program has run to
\* its end.  An entry is changed in place only when it is the top one: the
\* flag of the innermost loop is cleared by a break statement, and the flag
\* of the innermost if statement is set by that statement's own elif and
\* else handling, never by a statement nested in it.
ControlStackDiscipline ==
    [][/\ stage' \in {"visit", "done"} =>
              /\ Len(loopStack_') = Calls("visitWhileStatement")'
              /\ Len(conditionMetStack_') = Calls("visitIfStatement")'
       /\ stage' = "done" => loopStack_' = <<>> /\ conditionMetStack_' = <<>>
       /\ Len(loopStack_') - Len(loopStack_) \in {-1, 0, 1}
       /\ Len(conditionMetStack_') - Len(conditionMetStack_) \in {-1, 0, 1}
       /\ \A i \in Changed(loopStack_, loopStack_') :
              /\ i = Len(loopStack_) /\ i = Len(loopStack_')
              /\ ~loopStack_'[i]
              /\ InStatementLoop /\ Current.type = "BREAK_STMT"
       /\ \A i \in Changed(conditionMetStack_, conditionMetStack_') :
              /\ i = Len(conditionMetStack_) /\ i = Len(conditionMetStack_')
              /\ conditionMetStack_'[i]
              /\ \/ Top.kind = "visitIfStatement"
                 \/ /\ Top.kind = "visitSimpleBlock"
                    /\ Top.caller \in {"visitElifBlock", "visitElseBlock"}
                    /\ frames[Len(frames) - 1].kind = "visitIfStatement"
      ]_vars

\* a break in an if statement of a while loop nested in an if statement of a
\* while loop: the flag of the inner loop is cleared, that of the outer kept
ControlStackDisciplineWitness ==
    /\ stage = "visit"
    /\ tokens \in NestedLoopSources
    /\ loopStack_ = <<TRUE, FALSE>>
    /\ Len(conditionMetStack_) = 2
    /\ Calls("visitWhileStatement") = 2

\* C30: on the token vector of every file the lexer accepts, parseProgram
\* returns or throws: no statement loop is left turning on a token it does
\* not pass (the loop of parseBlock never meets the end-of-file token), and
\* index_ stays inside the vector: the parser stops at the end-of-file token
\* or right after it, an error is thrown at a token of the vector, and the
\* tokens parseStatement looks ahead at after a name are in the vector.
ParserTerminates ==
    (stage \notin {"lex", "crashed", "aborted"} /\ tokens # <<>>) =>
        LET parsed == parseProgram(tokens) IN
        /\ stage # "hung"
        /\ parsed.err # "DIVERGES"
        /\ parsed.index \in 1..(Len(tokens) + 1)
        /\ parsed.err # "NONE" => parsed.index <= Len(tokens)
        /\ parsed.err = "NONE" =>
               \/ parsed.index = Len(tokens) + 1
               \/ tokens[parsed.index].type = "EOF_TOKEN"
        /\ \A i \in 1..Len(tokens) :
               tokens[i].type = "ID_TOKEN" =>
                   /\ i + 1 <= Len(tokens)
                   /\ (\/ IsTok(tokens, i + 1, "PUNCTUATION_TOKEN", "PERIOD")
                       \/ tokens[i + 1].type = "ASSIGNMENT_TOKEN") => i + 2 <= Len(tokens)

\* the parser went through a block nested in a block and stopped at the
\* end-of-file token
ParserTerminatesWitness ==
    /\ stage = "visit"
    /\ file \in TerminatedFiles
    /\ BlocksOfStatements(program, 1) = 2
    /\ parseProgram(tokens).index = Len(tokens)
    /\ Count(tokens, "DEDENT", Len(tokens)) = 2

====
